---------------------------- MODULE Spec2Model ----------------------------
(***************************************************************************)
(* Gmail-To-Asana browser extension.                                       *)
(*                                                                         *)
(* The specifications of this module:                                       *)
(*   Spec          the Task Composer (ProjectSelector in asana-client.js): *)
(*                 open, preferences, workspace / project / tag / task     *)
(*                 selection, close                                        *)
(*   SubmitSpec    the submission of a loaded composer: createTask and     *)
(*                 addCommentToTask with their post-creation steps         *)
(*   NoteSpec      the note body assembled by createTask and the comment   *)
(*                 body assembled by addCommentToTask                      *)
(*   InjectorSpec  the Injector (GmailInjector.injectButtons) over a host  *)
(*                 document                                                *)
(*   GatewaySpec   the API Gateway (service worker message listener)       *)
(*   InFlightSpec  the submission with a user who acts while it runs       *)
(*   ExtractorSpec the Extractor's scan of the attachments of a thread     *)
(*   NotifierSpec  browser notifications and their click handler           *)
(*   ReopenSpec    InFlightSpec with a composer that is opened again       *)
(*   SettingsSpec  the stored preferences written by composer and popup    *)
(*   ObserverSpec  the Injector with its mutation observer and debounce    *)
(*                 timer over a host that changes the document             *)
(*   OverlaySpec   the overlay of the composer, its document listeners and *)
(*                 its close timers over several open / close cycles       *)
(*   SearchSpec    the task search of the comment mode and workspace       *)
(*                 changes whose responses arrive in any order             *)
(*   ReselectSpec  the submission with a user who picks another task while *)
(*                 it runs                                                 *)
(*   MessageSpec   the Extractor's attachment scans of one open message    *)
(*   QuiescenceSpec  the observe / debounce / inject loop under a fair     *)
(*                 event loop                                              *)
(* Each specification drives the variables of its component and leaves    *)
(* the variables of the others at their idle value.  In Spec and           *)
(* SubmitSpec the user acts between two handlers of the composer, never    *)
(* while one of them is parked at an await.                                *)
(***************************************************************************)
EXTENDS Integers, Sequences, FiniteSets, TLC

(***************************************************************************)
(* Identifiers returned by the external API.  None is JavaScript's         *)
(* null / undefined / '' (every falsy identifier value).                   *)
(***************************************************************************)
None == "none"

WorkspaceIds == {"W1", "W2"}
ProjectIds == {"P1", "P2"}
TagIds == {"G1"}
TaskIds == {"T1", "T2"}

\* bound on the number of attachment checkboxes of one composer
MaxAttachments == 2

Truthy(x) == x # None


VARIABLES
  \* ---- Task Composer (ProjectSelector) ----
  modal,                \* "none" (this.modal = null) | "open" | "closing"
  pc,                   \* await the composer's running handler is parked
                        \* at, "idle" when none is running
  mode,                 \* this.mode: "create" | "comment"
  taskName,             \* value of the #asana-task-name input
  preferences,          \* this.preferences (the composer's copy)
  storedPrefs,          \* chrome.storage.local 'preferences'
  workspaces,           \* this.workspaces (set of gids)
  workspaceSel,         \* value of the #asana-workspace select
  wsCall,               \* locals of the pending onWorkspaceChange call
  cleared,              \* history: the project the latest onWorkspaceChange
                        \* call found selected (and reset)
  projects,             \* this.projects
  tags,                 \* this.tags
  selectedProject,      \* this.selectedProject
  selectedTags,         \* this.selectedTags
  selectedExistingTask, \* this.selectedExistingTask
  customFields,         \* this.customFields
  customFieldValues,    \* this.customFieldValues (set of fields with a value)
  taskDropdown,         \* rows rendered in #asana-task-search-dropdown
  projectEnabled,       \* NOT #asana-project-input.disabled
  tagsEnabled,          \* NOT #asana-tags-input.disabled
  searchEnabled,        \* NOT #asana-task-search-input.disabled
  createEnabled,        \* NOT #asana-create.disabled
  status,               \* class of #asana-status: "none"|"info"|"error"|"success"
  sub,                  \* locals of the running createTask / addCommentToTask
  trace,                \* gateway messages and steps of the latest submission
  closeTimer,           \* the 2000 ms auto-close timer is pending
  removeTimers,         \* pending 300 ms removal timers of close()
  \* ---- note body (createTask / addCommentToTask) ----
  emailData,            \* this.emailData: sender, date, emailUrl, body, subject
  includeBody,          \* #asana-include-body.checked
  includeLink,          \* #asana-include-link.checked
  htmlNotes,            \* the assembled htmlNotes / htmlComment, <<>> before
  \* ---- Injector (GmailInjector) and the host document ----
  parent,               \* host elements in document order: parent[n] is the
                        \* parent of element n, 0 for a child of the root
  classes,              \* classes[n]: class and attribute tokens of element n
  toolbarButtons,       \* toolbarButtons[n]: .asana-gmail-btn children of n
  miniButtons,          \* miniButtons[n]: .asana-gmail-btn-mini children of n
  injectedButtons,      \* this.injectedButtons (WeakSet of host elements)
  passes,               \* calls of injectButtons so far
  miniTriggers,         \* history: miniTriggers[n] lists the strategies that
                        \* called createMiniAsanaButton(n)
  observing,            \* init() has set up the MutationObserver
  clock,                \* time in ms
  timerCount,           \* timers setTimeout has created (their ids are
                        \* 1, 2, ...)
  pendingTimers,        \* timers that are neither fired nor cleared: id, due
  debounceTimer,        \* this.debounceTimer: a timer id, 0 for undefined
  lastNotified,         \* history: time of the latest observer callback
  \* ---- API Gateway (service worker) ----
  gateway,              \* gateway[id]: the promise of handleMessage for
                        \* message id: the message while pending, then
                        \* the rejection reason
  responses             \* responses[id]: the sendResponse calls for message id

composerVars == <<modal, pc, mode, taskName, preferences, storedPrefs,
                  workspaces, workspaceSel, wsCall, cleared, projects, tags,
                  selectedProject, selectedTags, selectedExistingTask,
                  customFields, customFieldValues, taskDropdown,
                  projectEnabled, tagsEnabled, searchEnabled, createEnabled,
                  status, sub, trace, closeTimer, removeTimers>>

noteVars == <<emailData, includeBody, includeLink, htmlNotes>>

injectorVars == <<parent, classes, toolbarButtons, miniButtons,
                  injectedButtons, passes, miniTriggers, observing, clock,
                  timerCount, pendingTimers, debounceTimer, lastNotified>>

gatewayVars == <<gateway, responses>>

VARIABLES
  \* ---- Extractor (EmailExtractor.getAllThreadAttachments) ----
  thread,               \* the open thread of the host document: attachment
                        \* containers, collapsed rows, message senders
  threadAttachments,    \* the array getAllThreadAttachments returned
  scanned,              \* the extractor has returned
  attachments           \* emailData.attachments: the list getAttachments or
                        \* getAttachmentsFromMessage returned

extractorVars == <<thread, threadAttachments, scanned, attachments>>

VARIABLES
  \* ---- notifications (showNotification, notifications.onClicked) ----
  notifications,        \* notifications[id]: "none" | "creating" (the create
                        \* callback has not run) | "shown" | "cleared", and
                        \* the url the create callback holds
  linkStore,            \* chrome.storage.local: linkStore[id] is the value
                        \* under the key notification_<id>
  clickHandlers,        \* clickHandlers[id]: the onClicked handlers parked at
                        \* their await, each with the answer of its get
  clicked,              \* clicked[id]: click events delivered
  handled,              \* handled[id]: onClicked handlers that have finished
  opened                \* opened[id]: tabs chrome.tabs.create has opened

notifierVars == <<notifications, linkStore, clickHandlers, clicked, handled,
                  opened>>

VARIABLES
  \* ---- the page: composer overlays, document listeners, timers ----
  now,                  \* time in ms
  openCalls,            \* open() calls parked at await loadPreferences()
  overlayCount,         \* overlays createModal has built (ids 1, 2, ...)
  attached,             \* overlays that are children of document.body
  modalRef,             \* this.modal: an overlay id, 0 for null
  escapeHandler,        \* this.escapeHandler: the overlay whose createModal
                        \* made the handler, 0 for undefined
  keydownListeners,     \* document keydown listeners (Escape handlers)
  clickListeners,       \* document click listeners the pickers added
  autoClose,            \* this.preferences.autoClose
  successes,            \* history: submissions that showed the success status
  pageTimerCount,       \* timers setTimeout has created for the composer
  pageTimers,           \* pending composer timers: id, kind ("remove" |
                        \* "autoClose"), due, at (time of setTimeout) and
                        \* overlay (this.modal when the timer was set)
  wsCalls,              \* onWorkspaceChange calls parked at their
                        \* Promise.all, by workspaceId
  searchTimeout,        \* searchTimeout of setupTaskSearchAutocomplete: a
                        \* timer id, 0 for null
  searchTimerCount,     \* search timers created (their ids are 1, 2, ...)
  searchTimers,         \* pending search timers: id, due, query
  lastKeystroke,        \* history: time of the latest input event
  searchCalls,          \* SEARCH_TASKS messages not answered yet: id,
                        \* workspaceId, query
  lookupCount,          \* history: SEARCH_TASKS messages sent
  dropdownOpen          \* #asana-task-search-autocomplete has the class
                        \* asana-autocomplete-open

pageVars == <<now, openCalls, overlayCount, attached, modalRef, escapeHandler,
              keydownListeners, clickListeners, autoClose, successes,
              pageTimerCount, pageTimers, wsCalls, searchTimeout,
              searchTimerCount, searchTimers, lastKeystroke, searchCalls,
              lookupCount, dropdownOpen>>

vars == <<composerVars, noteVars, injectorVars, gatewayVars,
         extractorVars,
         notifierVars,
         pageVars>>

\* bound on the messages sent to the gateway in one behaviour
MaxMessages == 2

MessageIds == 1..MaxMessages


NoteIdle ==
  LET \* no note built, no host element, no message sent
      NoEmail == [sender |-> <<>>, date |-> <<>>, emailUrl |-> <<>>,
                  body |-> <<>>, subject |-> <<>>]
  IN
  /\ emailData = NoEmail
  /\ includeBody = TRUE
  /\ includeLink = TRUE
  /\ htmlNotes = <<>>

\* no observer, no timer
ObserverIdle ==
  /\ observing = FALSE
  /\ clock = 0
  /\ timerCount = 0
  /\ pendingTimers = {}
  /\ debounceTimer = 0
  /\ lastNotified = 0

InjectorIdle ==
  /\ parent = <<>>
  /\ classes = <<>>
  /\ toolbarButtons = <<>>
  /\ miniButtons = <<>>
  /\ injectedButtons = {}
  /\ passes = 0
  /\ miniTriggers = <<>>
  /\ ObserverIdle


GatewayIdle ==
  LET Unsent == [type |-> "none", state |-> "unsent", reason |-> "none"]
  IN
  /\ gateway = [id \in MessageIds |-> Unsent]
  /\ responses = [id \in MessageIds |-> <<>>]

\* JavaScript's null, as opposed to the empty string ""
Null == "null"

\* bound on the notifications created in one behaviour
MaxNotifications == 2
\* bound on the click events delivered for one notification
MaxClicks == 2

NotificationIds == 1..MaxNotifications

NotifierIdle ==
  /\ notifications = [id \in NotificationIds |->
                        [state |-> "none", url |-> Null]]
  /\ linkStore = [id \in NotificationIds |-> Null]
  /\ clickHandlers = [id \in NotificationIds |-> <<>>]
  /\ clicked = [id \in NotificationIds |-> 0]
  /\ handled = [id \in NotificationIds |-> 0]
  /\ opened = [id \in NotificationIds |-> 0]


ExtractorIdle ==
  LET NoThread == [containers |-> <<>>, rows |-> <<>>, senders |-> <<>>]
  IN
  /\ thread = NoThread
  /\ threadAttachments = <<>>
  /\ scanned = FALSE
  /\ attachments = <<>>

\* no overlay, no listener, no timer
PageIdle ==
  /\ now = 0
  /\ openCalls = 0
  /\ overlayCount = 0
  /\ attached = {}
  /\ modalRef = 0
  /\ escapeHandler = 0
  /\ keydownListeners = {}
  /\ clickListeners = 0
  /\ autoClose = FALSE
  /\ successes = 0
  /\ pageTimerCount = 0
  /\ pageTimers = {}
  /\ wsCalls = {}
  /\ searchTimeout = 0
  /\ searchTimerCount = 0
  /\ searchTimers = {}
  /\ lastKeystroke = 0
  /\ searchCalls = {}
  /\ lookupCount = 0
  /\ dropdownOpen = FALSE

(***************************************************************************)
(* Preferences record (popup.js:294-302 and the last-used identifiers the  *)
(* composer adds through savePreferences).                                 *)
(***************************************************************************)

NoSub == [kind |-> "none"]
NoCall == [workspaceId |-> None, autoSelectDefaults |-> FALSE]


\* the fields of ProjectSelector before the first open()
ComposerClosed ==
  /\ modal = "none"
  /\ pc = "idle"
  /\ mode = "create"
  /\ taskName = <<>>
  /\ cleared = None
  /\ preferences = [defaultWorkspace |-> None, lastWorkspaceId |-> None,
                    defaultProject |-> None, lastProjectId |-> None,
                    autoClose |-> FALSE]
  /\ workspaces = {}
  /\ workspaceSel = None
  /\ wsCall = NoCall
  /\ projects = {}
  /\ tags = {}
  /\ selectedProject = None
  /\ selectedTags = {}
  /\ selectedExistingTask = None
  /\ customFields = {}
  /\ customFieldValues = {}
  /\ taskDropdown = {}
  /\ projectEnabled = FALSE
  /\ tagsEnabled = FALSE
  /\ searchEnabled = FALSE
  /\ createEnabled = TRUE
  /\ status = "none"
  /\ sub = NoSub
  /\ trace = <<>>
  /\ closeTimer = FALSE
  /\ removeTimers = 0

ComposerIdle ==
  /\ ComposerClosed
  /\ storedPrefs = preferences

ComposerInit ==
  LET PrefsInit ==
        LET \* a project identifier that no project list contains any more
            StaleProject == "P0"
        IN
        LET \* a workspace identifier that no workspace list contains any more
            StaleWorkspace == "W0"
        IN
        [defaultWorkspace : {None, "W2", StaleWorkspace},
         lastWorkspaceId  : {None, "W1"},
         defaultProject   : {None, "P2", StaleProject},
         lastProjectId    : {None, "P1"},
         autoClose        : {FALSE}]
  IN
  /\ ComposerClosed
  /\ storedPrefs \in PrefsInit
  /\ NoteIdle
  /\ InjectorIdle
  /\ GatewayIdle
  /\ PageIdle
  /\ NotifierIdle
  /\ ExtractorIdle

\* subjects of the extracted email, the initial value of the name input
Subjects == {<<>>, <<"x">>}

(***************************************************************************)
(* ProjectSelector.open, first part: reset the draft, then await           *)
(* loadPreferences().                                                      *)
(***************************************************************************)
OpenKeepsDraft ==
  /\ modal = "none"
  /\ pc = "idle"
  /\ removeTimers = 0
  /\ selectedProject' = None
  /\ selectedTags' = {}
  /\ customFields' = {}
  /\ customFieldValues' = {}
  /\ cleared' = None
  /\ pc' = "loadPrefs"
  /\ UNCHANGED <<modal, mode, selectedExistingTask, taskName, preferences, storedPrefs, workspaces,
                 workspaceSel, wsCall, projects, tags, taskDropdown, projectEnabled,
                 tagsEnabled, searchEnabled, createEnabled, status, sub, trace,
                 closeTimer, removeTimers>>
  /\ UNCHANGED <<noteVars, injectorVars, gatewayVars, extractorVars, notifierVars, pageVars>>

Open ==
  /\ modal = "none"
  /\ pc = "idle"
  /\ removeTimers = 0
  /\ selectedProject' = None
  /\ selectedTags' = {}
  /\ selectedExistingTask' = None
  /\ customFields' = {}
  /\ customFieldValues' = {}
  /\ mode' = "create"
  /\ cleared' = None
  /\ pc' = "loadPrefs"
  /\ UNCHANGED <<modal, taskName, preferences, storedPrefs, workspaces,
                 workspaceSel, wsCall, projects, tags, taskDropdown, projectEnabled,
                 tagsEnabled, searchEnabled, createEnabled, status, sub, trace,
                 closeTimer, removeTimers>>
  /\ UNCHANGED <<noteVars, injectorVars, gatewayVars, extractorVars, notifierVars, pageVars>>

(***************************************************************************)
(* open, second part: GET_PREFERENCES has answered; createModal() builds a *)
(* fresh overlay (empty select, disabled search input, enabled submit      *)
(* button, empty status) and loadWorkspaces() sends GET_WORKSPACES.        *)
(***************************************************************************)
PrefsLoaded ==
  /\ pc = "loadPrefs"
  /\ preferences' = storedPrefs
  /\ modal' = "open"
  /\ workspaceSel' = None
  /\ taskDropdown' = {}
  /\ projectEnabled' = FALSE
  /\ tagsEnabled' = FALSE
  /\ searchEnabled' = FALSE
  /\ createEnabled' = TRUE
  /\ status' = "none"
  /\ \E subject \in Subjects : taskName' = subject
  /\ pc' = "loadWs"
  /\ UNCHANGED <<mode, storedPrefs, workspaces, wsCall, cleared, projects,
                 tags, selectedProject, selectedTags, selectedExistingTask,
                 customFields, customFieldValues, sub, trace, closeTimer, removeTimers>>
  /\ UNCHANGED <<noteVars, injectorVars, gatewayVars, extractorVars, notifierVars, pageVars>>

(***************************************************************************)
(* onWorkspaceChange: "Auto-select default project or restore last used    *)
(* project".                                                               *)
(***************************************************************************)
ProjectToSelect(prefs, auto) ==
  IF auto /\ Truthy(prefs.defaultProject)
    THEN prefs.defaultProject
    ELSE prefs.lastProjectId


OnWorkspaceChangeResetKeepsTags(d) ==
  [d EXCEPT !.selectedProject = None, !.selectedExistingTask = None,
            !.customFields = {}]

OnWorkspaceChangeReset(d) ==
  [selectedProject |-> None, selectedTags |-> {},
   selectedExistingTask |-> None, customFields |-> {},
   customFieldValues |-> {}]

(***************************************************************************)
(* onWorkspaceChange up to its await: reset the selections; with no        *)
(* workspace disable the pickers and return, otherwise disable the project *)
(* input and send GET_PROJECTS, GET_USERS and GET_TAGS.                    *)
(* Sets the draft variables, the three input flags, wsCall and pc.         *)
(***************************************************************************)
OnWorkspaceChangeStart(workspaceId, auto) ==
  LET \* the draft fields onWorkspaceChange resets before it loads anything
      CurrentDraft ==
        [selectedProject |-> selectedProject, selectedTags |-> selectedTags,
         selectedExistingTask |-> selectedExistingTask,
         customFields |-> customFields, customFieldValues |-> customFieldValues]
  IN
  LET d == OnWorkspaceChangeReset(CurrentDraft) IN
  /\ selectedProject' = d.selectedProject
  /\ selectedTags' = d.selectedTags
  /\ selectedExistingTask' = d.selectedExistingTask
  /\ customFields' = d.customFields
  /\ customFieldValues' = d.customFieldValues
  /\ cleared' = selectedProject
  /\ projectEnabled' = FALSE
  /\ tagsEnabled' = FALSE
  /\ IF ~Truthy(workspaceId)
       THEN /\ searchEnabled' = FALSE
            /\ wsCall' = NoCall
            /\ pc' = "idle"
       ELSE /\ searchEnabled' = searchEnabled
            /\ wsCall' = [workspaceId |-> workspaceId,
                          autoSelectDefaults |-> auto]
            /\ pc' = "loadLists"

(***************************************************************************)
(* loadWorkspaces after GET_WORKSPACES has answered.  An error object or a *)
(* rejected send ends in the catch block (this.workspaces.map is not a     *)
(* function); the list is then unusable, modelled as empty.                *)
(***************************************************************************)

WorkspacesLoaded ==
  LET WorkspaceResponses ==
        {[kind |-> "ok", data |-> d] : d \in SUBSET WorkspaceIds}
          \cup {[kind |-> "error", data |-> {}]}
  IN
  LET \* loadWorkspaces: "Priority: default workspace > last used >
      \* auto-select if only one"
      WorkspaceToSelect(prefs, wss) ==
        LET \* a || b of JavaScript on identifier values
            Or(a, b) == IF Truthy(a) THEN a ELSE b
        IN
        LET workspaceToSelect == Or(prefs.defaultWorkspace, prefs.lastWorkspaceId)
        IN  IF Truthy(workspaceToSelect) /\ workspaceToSelect \in wss
              THEN workspaceToSelect
              ELSE IF Cardinality(wss) = 1
                     THEN CHOOSE w \in wss : TRUE
                     ELSE None
  IN
  /\ pc = "loadWs"
  /\ \E resp \in WorkspaceResponses :
       IF resp.kind = "error"
         THEN /\ workspaces' = {}
              /\ status' = "error"
              /\ pc' = "idle"
              /\ UNCHANGED <<workspaceSel, wsCall, cleared, selectedProject,
                             selectedTags, selectedExistingTask, customFields,
                             customFieldValues, projectEnabled, tagsEnabled,
                             searchEnabled>>
         ELSE /\ workspaces' = resp.data
              /\ status' = status
              /\ LET w == WorkspaceToSelect(preferences, resp.data) IN
                 IF Truthy(w)
                   THEN /\ workspaceSel' = w
                        /\ OnWorkspaceChangeStart(w, TRUE)
                   ELSE /\ pc' = "idle"
                        /\ UNCHANGED <<workspaceSel, wsCall, cleared, selectedProject,
                                       selectedTags, selectedExistingTask,
                                       customFields, customFieldValues,
                                       projectEnabled, tagsEnabled,
                                       searchEnabled>>
  /\ UNCHANGED <<modal, mode, taskName, preferences, storedPrefs, projects, tags,
                 taskDropdown, createEnabled, sub, trace, closeTimer, removeTimers>>
  /\ UNCHANGED <<noteVars, injectorVars, gatewayVars, extractorVars, notifierVars, pageVars>>

(***************************************************************************)
(* The user picks an entry of the workspace select (the row holding it is  *)
(* displayed in create mode only): the change event runs onWorkspaceChange *)
(* without the autoSelectDefaults flag.                                    *)
(***************************************************************************)
UserSelectWorkspace ==
  /\ modal = "open"
  /\ pc = "idle"
  /\ mode = "create"
  /\ \E w \in workspaces \cup {None} :
       /\ w # workspaceSel
       /\ workspaceSel' = w
       /\ OnWorkspaceChangeStart(w, FALSE)
  /\ UNCHANGED <<modal, mode, taskName, preferences, storedPrefs, workspaces, projects,
                 tags, taskDropdown, createEnabled, status, sub, trace,
                 closeTimer, removeTimers>>
  /\ UNCHANGED <<noteVars, injectorVars, gatewayVars, extractorVars, notifierVars, pageVars>>

(***************************************************************************)
(* loadCustomFields after GET_PROJECT_CUSTOM_FIELDS has answered: fields   *)
(* and values are written as the code writes them (an empty list keeps the *)
(* values; an error object makes renderCustomFields throw after the values *)
(* are cleared; a rejected send changes nothing).                          *)
(***************************************************************************)
CustomFieldResponses ==
  LET FieldIds == {"F1"}
  IN
  {[kind |-> "ok", data |-> d] : d \in SUBSET FieldIds}
    \cup {[kind |-> "error", data |-> {}], [kind |-> "reject", data |-> {}]}


FieldsAfterLoad(resp, cur) ==
  IF resp.kind = "reject" THEN cur ELSE resp.data

ValuesAfterLoad(resp, cur) ==
  IF resp.kind = "reject" THEN cur
  ELSE IF resp.kind = "error" THEN {}
  ELSE IF resp.data = {} THEN cur ELSE {}

\* savePreferences: merge into this.preferences, send SAVE_PREFERENCES
SavedLastProject(prefs, p) == [prefs EXCEPT !.lastProjectId = p]

(***************************************************************************)
(* onWorkspaceChange after Promise.all has settled.                        *)
(*   reject    a send was rejected: catch, nothing assigned                *)
(*   projErr   GET_PROJECTS answered {error}: projects.length.toString()   *)
(*             throws after the three lists were assigned                  *)
(*   usersErr  GET_USERS answered {error}: this.users.filter throws after  *)
(*             the project auto-selection                                  *)
(*   ok        everything up to savePreferences({lastWorkspaceId}) runs    *)
(***************************************************************************)
ListsLoaded ==
  LET SavedLastWorkspace(prefs, w) == [prefs EXCEPT !.lastWorkspaceId = w]
  IN
  LET NoFieldResponse == [kind |-> "reject", data |-> {}]
  IN
  /\ pc = "loadLists"
  /\ \E outcome \in {"reject", "projErr", "usersErr", "ok"},
        projResp \in SUBSET ProjectIds, tagResp \in SUBSET TagIds,
        cfResp \in CustomFieldResponses :
       CASE outcome = "reject" ->
              /\ projResp = {} /\ tagResp = {} /\ cfResp = NoFieldResponse
              /\ status' = "error"
              /\ UNCHANGED <<projects, tags, selectedProject, customFields,
                             customFieldValues, preferences, storedPrefs,
                             projectEnabled, tagsEnabled, searchEnabled>>
         [] outcome = "projErr" ->
              /\ projResp = {} /\ cfResp = NoFieldResponse
              /\ projects' = {}
              /\ tags' = tagResp
              /\ status' = "error"
              /\ UNCHANGED <<selectedProject, customFields, customFieldValues,
                             preferences, storedPrefs, projectEnabled,
                             tagsEnabled, searchEnabled>>
         [] OTHER ->
              LET p == ProjectToSelect(preferences, wsCall.autoSelectDefaults)
                  found == Truthy(p) /\ p \in projResp
                  prefs1 == IF found THEN SavedLastProject(preferences, p)
                                     ELSE preferences
                  prefs2 == IF outcome = "ok"
                              THEN SavedLastWorkspace(prefs1,
                                                      wsCall.workspaceId)
                              ELSE prefs1
              IN
              /\ projects' = projResp
              /\ tags' = tagResp
              /\ projectEnabled' = TRUE
              /\ IF found
                   THEN /\ selectedProject' = p
                        /\ customFields' = FieldsAfterLoad(cfResp, customFields)
                        /\ customFieldValues' =
                             ValuesAfterLoad(cfResp, customFieldValues)
                   ELSE /\ cfResp = NoFieldResponse
                        /\ UNCHANGED <<selectedProject, customFields,
                                       customFieldValues>>
              /\ preferences' = prefs2
              /\ storedPrefs' = IF found \/ outcome = "ok" THEN prefs2
                                                            ELSE storedPrefs
              /\ IF outcome = "ok"
                   THEN /\ tagsEnabled' = (tagResp # {})
                        /\ searchEnabled' = TRUE
                        /\ status' = status
                   ELSE /\ tagsEnabled' = tagsEnabled
                        /\ searchEnabled' = searchEnabled
                        /\ status' = "error"
  /\ pc' = "idle"
  /\ wsCall' = NoCall
  /\ UNCHANGED <<modal, mode, taskName, workspaces, workspaceSel, cleared,
                 selectedTags,
                 selectedExistingTask, taskDropdown, createEnabled, sub,
                 trace, closeTimer, removeTimers>>
  /\ UNCHANGED <<noteVars, injectorVars, gatewayVars, extractorVars, notifierVars, pageVars>>

(***************************************************************************)
(* The user clicks a row of the project dropdown: selectProject stores the *)
(* project, saves it as last-used and loads its custom fields.             *)
(***************************************************************************)
UserPickProject ==
  /\ modal = "open"
  /\ pc = "idle"
  /\ mode = "create"
  /\ projectEnabled
  /\ \E p \in projects, cfResp \in CustomFieldResponses :
       /\ selectedProject' = p
       /\ preferences' = SavedLastProject(preferences, p)
       /\ storedPrefs' = SavedLastProject(preferences, p)
       /\ customFields' = FieldsAfterLoad(cfResp, customFields)
       /\ customFieldValues' = ValuesAfterLoad(cfResp, customFieldValues)
  /\ UNCHANGED <<modal, pc, mode, taskName, workspaces, workspaceSel, wsCall, cleared, projects,
                 tags, selectedTags, selectedExistingTask, taskDropdown,
                 projectEnabled, tagsEnabled, searchEnabled, createEnabled,
                 status, sub, trace, closeTimer, removeTimers>>
  /\ UNCHANGED <<noteVars, injectorVars, gatewayVars, extractorVars, notifierVars, pageVars>>

\* addTag from a row of the tags dropdown
UserAddTag ==
  /\ modal = "open"
  /\ pc = "idle"
  /\ mode = "create"
  /\ tagsEnabled
  /\ \E t \in tags \ selectedTags : selectedTags' = selectedTags \cup {t}
  /\ UNCHANGED <<modal, pc, mode, taskName, preferences, storedPrefs, workspaces,
                 workspaceSel, wsCall, cleared, projects, tags, selectedProject,
                 selectedExistingTask, customFields, customFieldValues,
                 taskDropdown, projectEnabled, tagsEnabled, searchEnabled,
                 createEnabled, status, sub, trace, closeTimer, removeTimers>>
  /\ UNCHANGED <<noteVars, injectorVars, gatewayVars, extractorVars, notifierVars, pageVars>>

\* removeTag from the chip's remove control
UserRemoveTag ==
  /\ modal = "open"
  /\ pc = "idle"
  /\ mode = "create"
  /\ \E t \in selectedTags : selectedTags' = selectedTags \ {t}
  /\ UNCHANGED <<modal, pc, mode, taskName, preferences, storedPrefs, workspaces,
                 workspaceSel, wsCall, cleared, projects, tags, selectedProject,
                 selectedExistingTask, customFields, customFieldValues,
                 taskDropdown, projectEnabled, tagsEnabled, searchEnabled,
                 createEnabled, status, sub, trace, closeTimer, removeTimers>>
  /\ UNCHANGED <<noteVars, injectorVars, gatewayVars, extractorVars, notifierVars, pageVars>>

\* change listener of a rendered custom-field input: store or delete
UserSetCustomField ==
  /\ modal = "open"
  /\ pc = "idle"
  /\ mode = "create"
  /\ \E f \in customFields, hasValue \in BOOLEAN :
       /\ customFieldValues' = IF hasValue THEN customFieldValues \cup {f}
                                           ELSE customFieldValues \ {f}
       /\ customFieldValues' # customFieldValues
  /\ UNCHANGED <<modal, pc, mode, taskName, preferences, storedPrefs, workspaces,
                 workspaceSel, wsCall, cleared, projects, tags, selectedProject,
                 selectedTags, selectedExistingTask, customFields,
                 taskDropdown, projectEnabled, tagsEnabled, searchEnabled,
                 createEnabled, status, sub, trace, closeTimer, removeTimers>>
  /\ UNCHANGED <<noteVars, injectorVars, gatewayVars, extractorVars, notifierVars, pageVars>>

\* switchMode: only this.mode and the visibility of the sections change
UserSwitchMode ==
  /\ modal = "open"
  /\ pc = "idle"
  /\ mode' = IF mode = "create" THEN "comment" ELSE "create"
  /\ UNCHANGED <<modal, pc, taskName, preferences, storedPrefs, workspaces,
                 workspaceSel, wsCall, cleared, projects, tags, selectedProject,
                 selectedTags, selectedExistingTask, customFields,
                 customFieldValues, taskDropdown, projectEnabled, tagsEnabled,
                 searchEnabled, createEnabled, status, sub, trace, closeTimer, removeTimers>>
  /\ UNCHANGED <<noteVars, injectorVars, gatewayVars, extractorVars, notifierVars, pageVars>>

(***************************************************************************)
(* The debounced search of the task-search input, with its SEARCH_TASKS    *)
(* answer rendered by renderTaskSearchDropdown.                            *)
(***************************************************************************)

UserSearchTasks ==
  LET SearchResults == {{}, TaskIds}
  IN
  /\ modal = "open"
  /\ pc = "idle"
  /\ mode = "comment"
  /\ searchEnabled
  /\ Truthy(workspaceSel)
  /\ \E tasks \in SearchResults :
       /\ taskDropdown' = tasks
       /\ taskDropdown' # taskDropdown
  /\ UNCHANGED <<modal, pc, mode, taskName, preferences, storedPrefs, workspaces,
                 workspaceSel, wsCall, cleared, projects, tags, selectedProject,
                 selectedTags, selectedExistingTask, customFields,
                 customFieldValues, projectEnabled, tagsEnabled,
                 searchEnabled, createEnabled, status, sub, trace, closeTimer, removeTimers>>
  /\ UNCHANGED <<noteVars, injectorVars, gatewayVars, extractorVars, notifierVars, pageVars>>

\* click on a rendered result row: selectExistingTask
UserSelectExistingTask ==
  /\ modal = "open"
  /\ pc = "idle"
  /\ mode = "comment"
  /\ \E t \in taskDropdown :
       /\ t # selectedExistingTask
       /\ selectedExistingTask' = t
  /\ UNCHANGED <<modal, pc, mode, taskName, preferences, storedPrefs, workspaces,
                 workspaceSel, wsCall, cleared, projects, tags, selectedProject,
                 selectedTags, customFields, customFieldValues, taskDropdown,
                 projectEnabled, tagsEnabled, searchEnabled, createEnabled,
                 status, sub, trace, closeTimer, removeTimers>>
  /\ UNCHANGED <<noteVars, injectorVars, gatewayVars, extractorVars, notifierVars, pageVars>>

\* the clear button of the selected-task preview
UserClearExistingTask ==
  /\ modal = "open"
  /\ pc = "idle"
  /\ mode = "comment"
  /\ Truthy(selectedExistingTask)
  /\ selectedExistingTask' = None
  /\ UNCHANGED <<modal, pc, mode, taskName, preferences, storedPrefs, workspaces,
                 workspaceSel, wsCall, cleared, projects, tags, selectedProject,
                 selectedTags, customFields, customFieldValues, taskDropdown,
                 projectEnabled, tagsEnabled, searchEnabled, createEnabled,
                 status, sub, trace, closeTimer, removeTimers>>
  /\ UNCHANGED <<noteVars, injectorVars, gatewayVars, extractorVars, notifierVars, pageVars>>

(***************************************************************************)
(* close(): with a modal, remove the Escape handler and start a 300 ms     *)
(* removal timer; without one, nothing.                                    *)
(***************************************************************************)
Close ==
  IF modal # "none"
    THEN /\ modal' = "closing"
         /\ removeTimers' = removeTimers + 1
    ELSE UNCHANGED <<modal, removeTimers>>

\* the close button, the cancel button, the overlay or the Escape key
UserClose ==
  /\ modal = "open"
  /\ pc = "idle"
  /\ Close
  /\ UNCHANGED <<pc, mode, taskName, preferences, storedPrefs, workspaces, workspaceSel,
                 wsCall, cleared, projects, tags, selectedProject, selectedTags,
                 selectedExistingTask, customFields, customFieldValues,
                 taskDropdown, projectEnabled, tagsEnabled, searchEnabled,
                 createEnabled, status, sub, trace, closeTimer>>
  /\ UNCHANGED <<noteVars, injectorVars, gatewayVars, extractorVars, notifierVars, pageVars>>

(***************************************************************************)
(* The timer of close(): this.modal.remove(); this.modal = null.  With     *)
(* this.modal already null the callback throws and changes nothing.        *)
(***************************************************************************)
RemoveOverlay ==
  /\ removeTimers > 0
  /\ removeTimers' = removeTimers - 1
  /\ modal' = "none"
  /\ UNCHANGED <<pc, mode, taskName, preferences, storedPrefs, workspaces, workspaceSel,
                 wsCall, cleared, projects, tags, selectedProject, selectedTags,
                 selectedExistingTask, customFields, customFieldValues,
                 taskDropdown, projectEnabled, tagsEnabled, searchEnabled,
                 createEnabled, status, sub, trace, closeTimer>>
  /\ UNCHANGED <<noteVars, injectorVars, gatewayVars, extractorVars, notifierVars, pageVars>>

(***************************************************************************)
(* Submission: createTask and addCommentToTask.                            *)
(***************************************************************************)
\* values of the #asana-task-name input
TaskNames == {<<>>, <<" ">>, <<"x">>, <<" ", "x", " ">>}

\* identifiers the API gives to created tasks
CreatedTaskIds == {"N1", "N2"}

RECURSIVE TrimStart(_)
TrimStart(str) ==
  IF str # <<>> /\ Head(str) = " " THEN TrimStart(Tail(str)) ELSE str

RECURSIVE TrimEnd(_)
TrimEnd(str) ==
  IF str # <<>> /\ str[Len(str)] = " "
    THEN TrimEnd(SubSeq(str, 1, Len(str) - 1))
    ELSE str

\* String.prototype.trim
Trim(str) == TrimEnd(TrimStart(str))


CreateIsValidNameOnly(name, project) ==
  Trim(name) # <<>>

\* the validation at the head of createTask (create mode)
CreateIsValid(name, project) ==
  Trim(name) # <<>> /\ Truthy(project)

CommentIsValidNeedsProject(existingTask, project) ==
  Truthy(existingTask) /\ Truthy(project)

\* the validation at the head of addCommentToTask
CommentIsValid(existingTask, project) == Truthy(existingTask)

\* the task a comment-mode step addresses: this.selectedExistingTask.gid,
\* read when the step runs; the create-mode steps use the local task.gid
StepTask(s) == IF s.kind = "create" THEN s.task ELSE selectedExistingTask

NextAttachmentFromEnd(atts, i) ==
  LET later == {j \in (i + 1)..Len(atts) : atts[j]}
  IN  IF later = {} THEN 0
      ELSE CHOOSE j \in later : \A k \in later : j >= k

\* index of the first selected attachment after position i that has a URL
NextAttachment(atts, i) ==
  LET later == {j \in (i + 1)..Len(atts) : atts[j]}
  IN  IF later = {} THEN 0
      ELSE CHOOSE j \in later : \A k \in later : j <= k

(***************************************************************************)
(* The stage that follows a finished stage; the order of the blocks in     *)
(* createTask: .eml file, attachments, Gmail label, success.               *)
(***************************************************************************)
StageAfterLabelFirst(s, stage) ==
  CASE stage = "call" ->
         IF s.addLabel THEN "label"
         ELSE IF s.attachEml /\ s.emlUrl THEN "emlDownload"
         ELSE IF NextAttachment(s.atts, 0) # 0 THEN "attDownload"
         ELSE "finish"
    [] stage = "label" ->
         IF s.attachEml /\ s.emlUrl THEN "emlDownload"
         ELSE IF NextAttachment(s.atts, 0) # 0 THEN "attDownload"
         ELSE "finish"
    [] stage = "eml" ->
         IF NextAttachment(s.atts, 0) # 0 THEN "attDownload" ELSE "finish"
    [] stage = "att" ->
         IF NextAttachment(s.atts, s.idx) # 0 THEN "attDownload"
         ELSE "finish"

StageAfter(s, stage) ==
  CASE stage = "call" ->
         IF s.attachEml /\ s.emlUrl THEN "emlDownload"
         ELSE IF NextAttachment(s.atts, 0) # 0 THEN "attDownload"
         ELSE IF s.addLabel THEN "label"
         ELSE "finish"
    [] stage = "eml" ->
         IF NextAttachment(s.atts, 0) # 0 THEN "attDownload"
         ELSE IF s.addLabel THEN "label"
         ELSE "finish"
    [] stage = "att" ->
         IF NextAttachment(s.atts, s.idx) # 0 THEN "attDownload"
         ELSE IF s.addLabel THEN "label"
         ELSE "finish"
    [] stage = "label" -> "finish"

\* showStatus dereferences this.modal, which the timer of close() has set
\* to null
ShowStatusThrows == modal = "none"

(***************************************************************************)
(* A showStatus that throws inside the try block of createTask /           *)
(* addCommentToTask lands in the outer catch, whose own showStatus throws  *)
(* again: the promise of the handler is rejected and the click listener    *)
(* that started it never looks at it.                                      *)
(***************************************************************************)
Unhandled(tr) ==
  /\ pc' = "idle"
  /\ sub' = NoSub
  /\ trace' = Append(tr, [type |-> "unhandledrejection", id |-> None])
  /\ UNCHANGED <<status, createEnabled, closeTimer>>

OuterCatchKeepsDisabled(tr) ==
  IF ShowStatusThrows
    THEN Unhandled(tr)
    ELSE /\ status' = "error"
         /\ pc' = "idle"
         /\ sub' = NoSub
         /\ trace' = tr
         /\ UNCHANGED <<createEnabled, closeTimer>>

\* the outer catch of createTask / addCommentToTask: error status, submit
\* button enabled and labelled again
OuterCatch(tr) ==
  IF ShowStatusThrows
    THEN Unhandled(tr)
    ELSE /\ status' = "error"
         /\ createEnabled' = TRUE
         /\ pc' = "idle"
         /\ sub' = NoSub
         /\ trace' = tr
         /\ UNCHANGED closeTimer

(***************************************************************************)
(* Continue the submission after `stage` with locals s and log tr.  The    *)
(* success block runs in the same turn as the last stage.  In comment mode *)
(* it reads this.selectedExistingTask.gid; on null that throws into the    *)
(* outer catch (error status, button enabled again).  Every block of the   *)
(* submission starts with showStatus; only the step from one attachment    *)
(* to the next shows nothing.                                              *)
(***************************************************************************)
Continue(s, tr, stage) ==
  LET target == StageAfter(s, stage) IN
  IF ~(stage = "att" /\ target = "attDownload") /\ ShowStatusThrows
    THEN Unhandled(tr)
  ELSE IF target # "finish"
    THEN /\ pc' = target
         /\ sub' = IF target = "attDownload"
                     THEN [s EXCEPT !.idx =
                             NextAttachment(s.atts,
                                            IF stage = "att" THEN s.idx ELSE 0)]
                     ELSE s
         /\ trace' = tr
         /\ status' = "info"
         /\ UNCHANGED <<createEnabled, closeTimer>>
    ELSE IF Truthy(StepTask(s))
              THEN /\ pc' = "idle"
                   /\ sub' = NoSub
                   /\ status' = "success"
                   /\ trace' = Append(tr, [type |-> "SHOW_NOTIFICATION",
                                           id |-> StepTask(s)])
                   /\ closeTimer' = (closeTimer \/ preferences.autoClose)
                   /\ UNCHANGED createEnabled
              ELSE OuterCatch(tr)

submitFrame == <<modal, mode, taskName, preferences, storedPrefs, workspaces,
                 workspaceSel, wsCall, cleared, projects, tags, selectedProject,
                 selectedTags, selectedExistingTask, customFields,
                 customFieldValues, taskDropdown, projectEnabled, tagsEnabled,
                 searchEnabled, removeTimers>>

\* the user edits the #asana-task-name input
UserTypeTaskName ==
  /\ modal = "open"
  /\ pc = "idle"
  /\ mode = "create"
  /\ \E name \in TaskNames :
       /\ name # taskName
       /\ taskName' = name
  /\ UNCHANGED <<modal, pc, mode, preferences, storedPrefs, workspaces,
                 workspaceSel, wsCall, cleared, projects, tags, selectedProject,
                 selectedTags, selectedExistingTask, customFields,
                 customFieldValues, taskDropdown, projectEnabled, tagsEnabled,
                 searchEnabled, createEnabled, status, sub, trace, closeTimer,
                 removeTimers>>
  /\ UNCHANGED <<noteVars, injectorVars, gatewayVars, extractorVars, notifierVars, pageVars>>

(***************************************************************************)
(* Click on #asana-create: createTask.  In comment mode it delegates to    *)
(* addCommentToTask.  A failed validation shows an error status and        *)
(* returns; otherwise the button is disabled, the note is built and        *)
(* CREATE_TASK or ADD_COMMENT is sent.                                     *)
(***************************************************************************)
Submit ==
  LET \* the checked attachment checkboxes in DOM order; TRUE = data-url is set
      AttachmentLists ==
        UNION {[1..n -> BOOLEAN] : n \in 0..MaxAttachments}
  IN
  /\ modal = "open"
  /\ pc = "idle"
  /\ createEnabled
  /\ \E attachEml \in BOOLEAN, emlUrl \in BOOLEAN, addLabel \in BOOLEAN,
        atts \in AttachmentLists :
       LET valid == IF mode = "comment"
                      THEN CommentIsValid(selectedExistingTask, selectedProject)
                      ELSE CreateIsValid(taskName, selectedProject)
           locals == [kind |-> mode, attachEml |-> attachEml,
                      emlUrl |-> emlUrl, addLabel |-> addLabel, atts |-> atts, idx |-> 0,
                      task |-> None]
           message == IF mode = "comment"
                        THEN [type |-> "ADD_COMMENT",
                              id |-> selectedExistingTask]
                        ELSE [type |-> "CREATE_TASK",
                              id |-> selectedProject]
       IN
       IF ~valid
         THEN /\ status' = "error"
              /\ UNCHANGED <<pc, sub, trace, createEnabled>>
         ELSE /\ createEnabled' = FALSE
              /\ status' = "info"
              /\ sub' = locals
              /\ trace' = <<message>>
              /\ pc' = "awaitCall"
  /\ UNCHANGED closeTimer
  /\ UNCHANGED submitFrame
  /\ UNCHANGED <<noteVars, injectorVars, gatewayVars, extractorVars, notifierVars, pageVars>>

(***************************************************************************)
(* CREATE_TASK / ADD_COMMENT has answered.  An {error} answer or a         *)
(* rejected send throws into the outer catch; otherwise the post steps     *)
(* start.                                                                  *)
(***************************************************************************)
CallAnswered ==
  /\ pc = "awaitCall"
  /\ \E ok \in BOOLEAN, gid \in CreatedTaskIds :
       IF ok
         THEN LET s == IF sub.kind = "create" THEN [sub EXCEPT !.task = gid]
                                              ELSE sub
              IN  Continue(s, Append(trace, [type |-> "answer",
                                             id |-> StepTask(s)]), "call")
         ELSE /\ gid = "N1"
              /\ OuterCatch(Append(trace, [type |-> "failed", id |-> None]))
  /\ UNCHANGED submitFrame
  /\ UNCHANGED <<noteVars, injectorVars, gatewayVars, extractorVars, notifierVars, pageVars>>

(***************************************************************************)
(* A download has settled (downloadAttachment returns null on any          *)
(* failure).  A usable blob is converted and sent as                       *)
(* UPLOAD_ATTACHMENT_BASE64; a null blob, an empty .eml blob, a failed     *)
(* conversion or a null task reference (caught) end the step.              *)
(***************************************************************************)
Downloaded(file, stage, uploadPc) ==
  \E outcome \in {"null", "empty", "readError", "blob"} :
    LET tr == Append(trace, [type |-> "download", id |-> file])
        usable == \/ outcome = "blob"
                  \/ outcome = "empty" /\ stage = "att"
    IN
    IF usable /\ Truthy(StepTask(sub))
      THEN /\ pc' = uploadPc
           /\ trace' = Append(tr, [type |-> "UPLOAD_ATTACHMENT_BASE64",
                                   id |-> StepTask(sub)])
           /\ UNCHANGED <<sub, status, createEnabled, closeTimer>>
      ELSE Continue(sub, tr, stage)

EmlDownloaded ==
  /\ pc = "emlDownload"
  /\ Downloaded("eml", "eml", "emlUpload")
  /\ UNCHANGED submitFrame
  /\ UNCHANGED <<noteVars, injectorVars, gatewayVars, extractorVars, notifierVars, pageVars>>

AttachmentDownloaded ==
  /\ pc = "attDownload"
  /\ Downloaded("attachment", "att", "attUpload")
  /\ UNCHANGED submitFrame
  /\ UNCHANGED <<noteVars, injectorVars, gatewayVars, extractorVars, notifierVars, pageVars>>

UploadedThrows(stage) ==
  \E ok \in BOOLEAN :
    IF ok
      THEN Continue(sub, Append(trace, [type |-> "uploaded", id |-> None]),
                    stage)
      ELSE /\ pc' = "idle"
           /\ sub' = NoSub
           /\ status' = "error"
           /\ trace' = Append(trace, [type |-> "uploadFailed", id |-> None])
           /\ createEnabled' = TRUE
           /\ UNCHANGED closeTimer

\* UPLOAD_ATTACHMENT_BASE64 has answered; an {error} answer is caught
Uploaded(stage) ==
  \E ok \in BOOLEAN :
    Continue(sub, Append(trace, [type |-> IF ok THEN "uploaded"
                                               ELSE "uploadFailed",
                                 id |-> None]), stage)

EmlUploaded ==
  /\ pc = "emlUpload"
  /\ Uploaded("eml")
  /\ UNCHANGED submitFrame
  /\ UNCHANGED <<noteVars, injectorVars, gatewayVars, extractorVars, notifierVars, pageVars>>

AttachmentUploaded ==
  /\ pc = "attUpload"
  /\ Uploaded("att")
  /\ UNCHANGED submitFrame
  /\ UNCHANGED <<noteVars, injectorVars, gatewayVars, extractorVars, notifierVars, pageVars>>

\* addGmailLabel has returned; it catches whatever goes wrong
LabelDone ==
  /\ pc = "label"
  /\ \E outcome \in {"applied", "noButton", "noLabel"} :
       Continue(sub, Append(trace, [type |-> "label", id |-> outcome]),
                "label")
  /\ UNCHANGED submitFrame
  /\ UNCHANGED <<noteVars, injectorVars, gatewayVars, extractorVars, notifierVars, pageVars>>

\* the auto-close timer: close()
AutoCloseFire ==
  /\ closeTimer
  /\ closeTimer' = FALSE
  /\ Close
  /\ UNCHANGED <<pc, mode, taskName, preferences, storedPrefs, workspaces, workspaceSel,
                 wsCall, cleared, projects, tags, selectedProject, selectedTags,
                 selectedExistingTask, customFields, customFieldValues,
                 taskDropdown, projectEnabled, tagsEnabled, searchEnabled,
                 createEnabled, status, sub, trace>>
  /\ UNCHANGED <<noteVars, injectorVars, gatewayVars, extractorVars, notifierVars, pageVars>>

(***************************************************************************)
(* A composer that has finished loading, with any draft the selection      *)
(* machine above can produce.                                              *)
(***************************************************************************)
SubmitInit ==
  /\ modal = "open"
  /\ pc = "idle"
  /\ mode \in {"create", "comment"}
  /\ taskName \in TaskNames
  /\ cleared = None
  /\ \E w \in {None, "W1"}, ac \in BOOLEAN :
       /\ workspaceSel = w
       /\ selectedProject \in IF Truthy(w) THEN {None} \cup ProjectIds
                                           ELSE {None}
       /\ preferences = [defaultWorkspace |-> None, lastWorkspaceId |-> w,
                         defaultProject |-> None,
                         lastProjectId |-> selectedProject,
                         autoClose |-> ac]
       /\ storedPrefs = preferences
  /\ selectedExistingTask \in IF Truthy(workspaceSel) THEN {None} \cup TaskIds
                                                      ELSE {None}
  /\ workspaces = WorkspaceIds
  /\ wsCall = NoCall
  /\ projects = ProjectIds
  /\ tags = TagIds
  /\ selectedTags = {}
  /\ customFields = {}
  /\ customFieldValues = {}
  /\ taskDropdown = IF Truthy(workspaceSel) THEN TaskIds ELSE {}
  /\ projectEnabled = Truthy(workspaceSel)
  /\ tagsEnabled = Truthy(workspaceSel)
  /\ searchEnabled = Truthy(workspaceSel)
  /\ createEnabled = TRUE
  /\ status = "none"
  /\ sub = NoSub
  /\ trace = <<>>
  /\ closeTimer = FALSE
  /\ removeTimers = 0
  /\ NoteIdle
  /\ InjectorIdle
  /\ GatewayIdle
  /\ PageIdle
  /\ NotifierIdle
  /\ ExtractorIdle

SubmitSpec == SubmitInit /\ [][\/ Submit
                               \/ CallAnswered
                               \/ EmlDownloaded
                               \/ EmlUploaded
                               \/ AttachmentDownloaded
                               \/ AttachmentUploaded
                               \/ LabelDone
                               \/ AutoCloseFire
                               \/ UserTypeTaskName
                               \/ UserSwitchMode
                               \/ UserClose
                               \/ RemoveOverlay]_vars

(***************************************************************************)
(* The submission with a user who does not wait for it: the close button,  *)
(* the cancel button, the overlay and the Escape key stay live while       *)
(* createTask / addCommentToTask is parked at an await.                    *)
(***************************************************************************)
UserCloseInFlight ==
  /\ modal = "open"
  /\ pc # "idle"
  /\ Close
  /\ UNCHANGED <<pc, mode, taskName, preferences, storedPrefs, workspaces,
                 workspaceSel, wsCall, cleared, projects, tags,
                 selectedProject, selectedTags, selectedExistingTask,
                 customFields, customFieldValues, taskDropdown,
                 projectEnabled, tagsEnabled, searchEnabled, createEnabled,
                 status, sub, trace, closeTimer>>
  /\ UNCHANGED <<noteVars, injectorVars, gatewayVars, extractorVars, notifierVars, pageVars>>

InFlightSpec == SubmitInit /\ [][\/ Submit
                                 \/ CallAnswered
                                 \/ EmlDownloaded
                                 \/ EmlUploaded
                                 \/ AttachmentDownloaded
                                 \/ AttachmentUploaded
                                 \/ LabelDone
                                 \/ AutoCloseFire
                                 \/ UserTypeTaskName
                                 \/ UserSwitchMode
                                 \/ UserClose
                                 \/ RemoveOverlay
                                 \/ UserCloseInFlight]_vars

\* C12 (as stated): whatever the user does while a call of the composer is
\* in flight, closing the modal included, no composer operation ends in an
\* unhandled rejection.
C12_Original ==
  \A i \in 1..Len(trace) : trace[i].type # "unhandledrejection"


Spec == ComposerInit /\ [][\/ Open
                           \/ PrefsLoaded
                           \/ WorkspacesLoaded
                           \/ UserSelectWorkspace
                           \/ ListsLoaded
                           \/ UserPickProject
                           \/ UserAddTag
                           \/ UserRemoveTag
                           \/ UserSetCustomField
                           \/ UserSwitchMode
                           \/ UserSearchTasks
                           \/ UserSelectExistingTask
                           \/ UserClearExistingTask
                           \/ UserClose
                           \/ RemoveOverlay]_vars

(***************************************************************************)
(* Properties of the Task Composer.                                        *)
(***************************************************************************)

\* C1: in create mode a click on the submit control with an empty (trimmed)
\* task name or without a selected project only shows an error status: no
\* message is sent, no call is awaited and the control stays enabled.
C1_ValidationAbortsLocally ==
  [][(/\ modal = "open" /\ pc = "idle" /\ createEnabled
      /\ mode = "create"
      /\ (Trim(taskName) = <<>> \/ ~Truthy(selectedProject))
      /\ mode' = mode /\ taskName' = taskName /\ modal' = modal
      /\ closeTimer' = closeTimer /\ removeTimers' = removeTimers)
     => (/\ status' = "error"
         /\ trace' = trace
         /\ pc' = "idle"
         /\ sub' = NoSub
         /\ createEnabled')]_vars

\* an aborted create-mode submission: error status, nothing sent
C1_Witness ==
  /\ modal = "open" /\ pc = "idle" /\ mode = "create"
  /\ Trim(taskName) # <<>> /\ ~Truthy(selectedProject)
  /\ status = "error" /\ trace = <<>> /\ createEnabled

\* C2: in comment mode the submission depends on the existing-task
\* selection only: with a task T selected it sends ADD_COMMENT for T
\* whatever the project selection is, and it ends with the success status
\* unless that call failed; without a task it shows an error and sends
\* nothing.
C2_CommentNeedsOnlyExistingTask ==
  /\ [][(/\ modal = "open" /\ pc = "idle" /\ createEnabled
         /\ mode = "comment"
         /\ mode' = mode /\ modal' = modal
         /\ closeTimer' = closeTimer /\ removeTimers' = removeTimers)
        => IF Truthy(selectedExistingTask)
             THEN /\ pc' = "awaitCall"
                  /\ trace' = <<[type |-> "ADD_COMMENT",
                                 id |-> selectedExistingTask]>>
             ELSE /\ status' = "error"
                  /\ trace' = trace
                  /\ pc' = "idle"
                  /\ createEnabled']_vars
  /\ [][(/\ pc # "idle" /\ pc' = "idle" /\ sub.kind = "comment"
         /\ trace'[Len(trace')].type # "failed")
        => status' = "success"]_vars

\* a comment added without any project selected
C2_Witness ==
  /\ mode = "comment" /\ pc = "idle"
  /\ ~Truthy(selectedProject)
  /\ status = "success"
  /\ trace # <<>>
  /\ trace[1] = [type |-> "ADD_COMMENT", id |-> selectedExistingTask]

\* C3 as stated: when the user's workspace change has completed after a
\* project was selected, no project is selected and tags and custom-field
\* values are empty, whatever the new project list contains.
C3_Original ==
  [][(/\ pc = "loadLists" /\ ~wsCall.autoSelectDefaults
      /\ Truthy(cleared)
      /\ pc' = "idle")
     => (/\ selectedProject' = None
         /\ selectedTags' = {}
         /\ customFieldValues' = {})]_vars

\* C3: when the user's workspace change has completed after project P1 was
\* selected, tags and custom-field values are empty, and the selected
\* project is null unless the new workspace's loaded project list contains
\* the identifier of P1, in which case the last-used auto-selection has
\* selected that project again.
C3_ClearedUnlessLastUsedListed ==
  [][(/\ pc = "loadLists" /\ ~wsCall.autoSelectDefaults
      /\ Truthy(cleared)
      /\ pc' = "idle")
     => (/\ selectedProject' = IF projectEnabled' /\ cleared \in projects'
                                 THEN cleared ELSE None
         /\ selectedTags' = {}
         /\ customFieldValues' = {})]_vars

\* a completed user switch from W1 (P1 selected) to W2 whose list lacks P1
C3_Witness ==
  /\ pc = "idle" /\ modal = "open"
  /\ cleared = "P1" /\ workspaceSel = "W2"
  /\ projectEnabled /\ projects = {"P2"}
  /\ selectedProject = None

\* C4: once the create/comment call has succeeded, the submission ends
\* with the success status and the SHOW_NOTIFICATION message whatever the
\* outcome of each post step, and every requested step has been attempted:
\* the .eml download when requested and available, one download per
\* selected attachment with a URL, the label application when requested.
C4_PostStepsBestEffort ==
  [][(/\ pc # "idle" /\ pc' = "idle"
      /\ trace'[Len(trace')].type # "failed")
     => (/\ status' = "success"
         /\ trace'[Len(trace')].type = "SHOW_NOTIFICATION"
         /\ Cardinality({i \in DOMAIN trace' :
                           /\ trace'[i].type = "download"
                           /\ trace'[i].id = "eml"})
              = IF sub.attachEml /\ sub.emlUrl THEN 1 ELSE 0
         /\ Cardinality({i \in DOMAIN trace' :
                           /\ trace'[i].type = "download"
                           /\ trace'[i].id = "attachment"})
              = Cardinality({j \in DOMAIN sub.atts : sub.atts[j]})
         /\ Cardinality({i \in DOMAIN trace' : trace'[i].type = "label"})
              = IF sub.addLabel THEN 1 ELSE 0)]_vars

\* a successful submission in which an upload was rejected and a later
\* step still ran
C4_Witness ==
  /\ pc = "idle" /\ status = "success"
  /\ \E i, j \in DOMAIN trace :
       /\ i < j
       /\ trace[i].type = "uploadFailed"
       /\ trace[j].type \in {"download", "label"}
  /\ trace[Len(trace)].type = "SHOW_NOTIFICATION"

\* C6: in a create-mode submission every post step comes after the answer
\* of CREATE_TASK, a failed CREATE_TASK is followed by nothing, the .eml
\* download precedes the attachment downloads which precede the label
\* application, every upload follows its download and carries the
\* identifier of the task CREATE_TASK returned.
C6_CreateOrder ==
  (trace # <<>> /\ trace[1].type = "CREATE_TASK") =>
    /\ \A i \in DOMAIN trace : i > 1 => trace[i].type # "CREATE_TASK"
    /\ Len(trace) >= 2 =>
         /\ trace[2].type \in {"answer", "failed"}
         /\ trace[2].type = "failed" => Len(trace) = 2
         /\ trace[2].type = "answer" => trace[2].id \in CreatedTaskIds
    /\ pc \notin {"idle", "awaitCall"} =>
         Len(trace) >= 2 /\ trace[2].type = "answer"
    /\ \A i, j \in DOMAIN trace :
         i < j =>
           /\ (trace[j].type = "download" /\ trace[j].id = "eml")
                => trace[i].type \notin {"label"}
                   /\ ~(trace[i].type = "download"
                        /\ trace[i].id = "attachment")
           /\ (trace[j].type = "download" /\ trace[j].id = "attachment")
                => trace[i].type # "label"
    /\ \A i \in DOMAIN trace :
         trace[i].type = "UPLOAD_ATTACHMENT_BASE64" =>
           /\ i > 2
           /\ trace[i - 1].type = "download"
           /\ trace[i].id = trace[2].id

\* a create-mode submission that ran all three post steps
C6_Witness ==
  /\ trace # <<>> /\ trace[1].type = "CREATE_TASK"
  /\ status = "success"
  /\ \E i, j, k, l \in DOMAIN trace :
       /\ i < j /\ j < k /\ k < l
       /\ trace[i].type = "download" /\ trace[i].id = "eml"
       /\ trace[j].type = "UPLOAD_ATTACHMENT_BASE64"
       /\ trace[k].type = "download" /\ trace[k].id = "attachment"
       /\ trace[l].type = "label"

\* C9 as stated: the workspace selected after the list has loaded is the
\* default if it is in the list, else the last-used one if it is in the
\* list, else the only workspace of a one-element list, else none.
C9_Original ==
  [][(pc = "loadWs" /\ pc' # "loadWs" /\ status' # "error")
     => workspaceSel' =
          IF preferences.defaultWorkspace \in workspaces'
            THEN preferences.defaultWorkspace
          ELSE IF preferences.lastWorkspaceId \in workspaces'
            THEN preferences.lastWorkspaceId
          ELSE IF Cardinality(workspaces') = 1
            THEN CHOOSE w \in workspaces' : TRUE
          ELSE None]_vars

\* C10 as stated: after the project list of a selected workspace has
\* loaded, the selected project is the default project if it is in the
\* list, else the last-used project if it is in the list, else none.
C10_Original ==
  [][(pc = "loadLists" /\ pc' = "idle" /\ projectEnabled')
     => selectedProject' =
          IF preferences.defaultProject \in projects'
            THEN preferences.defaultProject
          ELSE IF preferences.lastProjectId \in projects'
            THEN preferences.lastProjectId
          ELSE None]_vars

(***************************************************************************)
(* NoteSpec: the note body of createTask and the comment body of           *)
(* addCommentToTask.  Text is a sequence of one-character strings; the     *)
(* literal pieces of the templates are longer strings.                     *)
(***************************************************************************)
\* bound on the length of the extracted email body
MaxBody == 5


RECURSIVE Texts(_, _)
Texts(chars, n) ==
  IF n = 0 THEN {<<>>}
  ELSE LET shorter == Texts(chars, n - 1)
       IN  shorter \cup {Append(t, c) : t \in shorter, c \in chars}


\* div.textContent = text; div.innerHTML: the serializer escapes & < >
EscapeCharIdentity(c) == <<c>>

EscapeChar(c) ==
  CASE c = "&" -> <<"&", "a", "m", "p", ";">>
    [] c = "<" -> <<"&", "l", "t", ";">>
    [] c = ">" -> <<"&", "g", "t", ";">>
    [] OTHER -> <<c>>

RECURSIVE escapeHtml(_)
escapeHtml(text) ==
  IF text = <<>> THEN <<>>
  ELSE EscapeChar(Head(text)) \o escapeHtml(Tail(text))

\* .replace(/\n{3,}/g, '\n\n')
RECURSIVE CollapseNewlines(_)
CollapseNewlines(text) ==
  IF text = <<>> THEN <<>>
  ELSE IF /\ Len(text) >= 3
          /\ text[1] = "\n" /\ text[2] = "\n" /\ text[3] = "\n"
    THEN CollapseNewlines(Tail(text))
    ELSE <<Head(text)>> \o CollapseNewlines(Tail(text))

RECURSIVE TrimSpaceStart(_)
TrimSpaceStart(text) ==
  IF text # <<>> /\ Head(text) \in {" ", "\n"} THEN TrimSpaceStart(Tail(text))
  ELSE text

RECURSIVE TrimSpaceEnd(_)
TrimSpaceEnd(text) ==
  IF text # <<>> /\ text[Len(text)] \in {" ", "\n"}
    THEN TrimSpaceEnd(SubSeq(text, 1, Len(text) - 1))
    ELSE text


\* the link and the quoted body, the same lines in both builders apart
\* from the line break that ends the link
LinkSection(e, link, lineEnd) ==
  IF link /\ e.emailUrl # <<>>
    THEN <<"\n<a href=\"">> \o escapeHtml(e.emailUrl)
           \o <<"\">Ouvrir dans Gmail</a>">> \o lineEnd
    ELSE <<>>

BodySection(e, body) ==
  LET CleanBody(body0) ==
        LET \* .replace(/^\s+|\s+$/g, '')
            TrimSpace(text) == TrimSpaceEnd(TrimSpaceStart(text))
        IN
          TrimSpace(CollapseNewlines(escapeHtml(body0)))
  IN
  IF body /\ e.body # <<>>
    THEN <<"\n<blockquote>">> \o CleanBody(e.body) \o <<"</blockquote>">>
    ELSE <<>>


NoteInit ==
  LET EmailUrls == {<<>>, <<"u">>, <<"u", "&", "u">>}
  IN
  LET Dates == {<<>>, <<"d">>}
  IN
  LET Senders == {<<>>, <<"s">>, <<"s", " ", "<", "s", ">">>}
  IN
  LET BodyChars == {"b", "<", "\n"}
  IN
  /\ emailData \in [sender : Senders, date : Dates, emailUrl : EmailUrls,
                    body : Texts(BodyChars, MaxBody), subject : Subjects]
  /\ includeBody \in BOOLEAN
  /\ includeLink \in BOOLEAN
  /\ htmlNotes = <<>>
  /\ ComposerIdle
  /\ InjectorIdle
  /\ GatewayIdle
  /\ PageIdle
  /\ NotifierIdle
  /\ ExtractorIdle

BuildTaskNotes ==
  LET \* createTask: htmlNotes
      TaskNotes(e, body, link) ==
        <<"<body>">>
          \o (IF e.sender # <<>>
                THEN <<"From: ">> \o escapeHtml(e.sender) \o <<"\n">> ELSE <<>>)
          \o (IF e.date # <<>>
                THEN <<"Date: ">> \o escapeHtml(e.date) \o <<"\n">> ELSE <<>>)
          \o LinkSection(e, link, <<"\n">>)
          \o BodySection(e, body)
          \o <<"</body>">>
  IN
  /\ htmlNotes = <<>>
  /\ htmlNotes' = TaskNotes(emailData, includeBody, includeLink)
  /\ UNCHANGED <<emailData, includeBody, includeLink>>
  /\ UNCHANGED <<composerVars, injectorVars, gatewayVars, extractorVars, notifierVars, pageVars>>

BuildCommentText ==
  LET \* addCommentToTask: htmlComment
      CommentText(e, body, link) ==
        <<"<body>", "<strong>">>
          \o escapeHtml(IF e.subject # <<>> THEN e.subject
                                            ELSE <<"(no subject)">>)
          \o <<"</strong>">>
          \o (IF e.sender # <<>> \/ e.date # <<>>
                THEN <<"\n">>
                       \o (IF e.sender # <<>>
                             THEN <<"De: ">> \o escapeHtml(e.sender) ELSE <<>>)
                       \o (IF e.date # <<>>
                             THEN (IF e.sender # <<>> THEN <<" | ">> ELSE <<>>)
                                    \o escapeHtml(e.date)
                             ELSE <<>>)
                ELSE <<>>)
          \o LinkSection(e, link, <<>>)
          \o BodySection(e, body)
          \o <<"</body>">>
  IN
  /\ htmlNotes = <<>>
  /\ htmlNotes' = CommentText(emailData, includeBody, includeLink)
  /\ UNCHANGED <<emailData, includeBody, includeLink>>
  /\ UNCHANGED <<composerVars, injectorVars, gatewayVars, extractorVars, notifierVars, pageVars>>


NoteSpec == NoteInit /\ [][\/ BuildTaskNotes
                           \/ BuildCommentText]_vars

\* C5: in an assembled note the sender text, the date text, the link and
\* the quoted body come in this order; the link (and the URL text) is
\* there exactly when includeLink is set and a URL exists, the quote (and
\* the body text) exactly when includeBody is set and a body exists, the
\* sender whenever a sender exists; and no raw angle bracket of the email
\* data reaches the note.
C5_NoteSections ==
  LET Range(seq) == {seq[i] : i \in DOMAIN seq}
  IN
  htmlNotes # <<>> =>
    LET At(tok) == {i \in DOMAIN htmlNotes : htmlNotes[i] = tok}
        Before(A, B) == \A i \in A, j \in B : i < j
        sender == At("s")
        date == At("d")
        link == At("\n<a href=\"")
        url == At("u")
        quote == At("\n<blockquote>")
        text == At("b")
    IN  /\ Before(sender, date) /\ Before(date, link)
        /\ Before(sender, link) /\ Before(link, url)
        /\ Before(url, quote) /\ Before(date, quote)
        /\ Before(sender, quote) /\ Before(quote, text)
        /\ Cardinality(link) <= 1 /\ Cardinality(quote) <= 1
        /\ (sender # {}) = (emailData.sender # <<>>)
        /\ (date # {}) = (emailData.date # <<>>)
        /\ (link # {}) = (includeLink /\ emailData.emailUrl # <<>>)
        /\ (url # {}) = (link # {})
        /\ (quote # {}) = (includeBody /\ emailData.body # <<>>)
        /\ (text # {}) = (includeBody /\ "b" \in Range(emailData.body))
        /\ At("<") = {} /\ At(">") = {}

\* a note with all four sections whose body text held a raw "<"
C5_Witness ==
  /\ htmlNotes # <<>>
  /\ includeBody /\ includeLink
  /\ emailData.sender # <<>> /\ emailData.date # <<>>
  /\ emailData.emailUrl # <<>>
  /\ \E i, j \in DOMAIN emailData.body :
       emailData.body[i] = "<" /\ emailData.body[j] = "b"
  /\ \E i, j, k \in DOMAIN htmlNotes :
       /\ i < j /\ j < k
       /\ htmlNotes[i] = "s"
       /\ htmlNotes[j] = "\n<a href=\""
       /\ htmlNotes[k] = "\n<blockquote>"

(***************************************************************************)
(* GatewaySpec: the service worker's chrome.runtime.onMessage listener.    *)
(*   handleMessage(message).then(sendResponse)                             *)
(*     .catch(error => sendResponse({ error: error.message }))             *)
(***************************************************************************)
\* the cases of the switch in handleMessage
MessageTypes ==
  {"CHECK_SESSION", "GET_WORKSPACES", "GET_PROJECTS", "GET_USERS",
   "GET_TAGS", "CREATE_TASK", "UPLOAD_ATTACHMENT",
   "UPLOAD_ATTACHMENT_BASE64", "GET_TASK_URL", "SEARCH_TASKS",
   "ADD_COMMENT", "GET_PROJECT_CUSTOM_FIELDS", "GET_TASK",
   "SHOW_NOTIFICATION", "SAVE_PREFERENCES", "GET_PREFERENCES"}


\* messages of the Error objects the handlers throw
FetchError ==
  [TokenMissing |-> "Token Asana non configure",
   ApiError |-> "Asana API error: 500",
   NetworkError |-> "Failed to fetch"]

HandlerError ==
  [DownloadFailed |-> "Failed to download attachment: 404",
   UnknownMessage |-> "Unknown message type: PING"]


\* a page sends a message: the listener calls handleMessage and returns
\* true, keeping the response channel open
SendMessage ==
  LET \* a type the switch has no case for
      UnknownType == "PING"
  IN
  /\ \E id \in MessageIds, type \in MessageTypes \cup {UnknownType} :
       /\ gateway[id].state = "unsent"
       /\ \A other \in MessageIds :
            other < id => gateway[other].state # "unsent"
       /\ gateway' = [gateway EXCEPT ![id] =
                        [type |-> type, state |-> "pending",
                         reason |-> "none"]]
  /\ UNCHANGED responses
  /\ UNCHANGED <<composerVars, noteVars, injectorVars, extractorVars, notifierVars, pageVars>>

\* the promise of handleMessage settles
HandleMessage ==
  LET CanFulfil(type) == type \in MessageTypes
  IN
  LET \* the ways the promise of handleMessage(message) can settle
      Rejections(type) ==
        LET \* the handlers that go through asanaFetch
            FetchTypes ==
              {"GET_WORKSPACES", "GET_PROJECTS", "GET_USERS", "GET_TAGS", "CREATE_TASK",
               "SEARCH_TASKS", "ADD_COMMENT", "GET_PROJECT_CUSTOM_FIELDS", "GET_TASK"}
        IN
        CASE type \in FetchTypes ->
               {FetchError.TokenMissing, FetchError.ApiError,
                FetchError.NetworkError}
          [] type = "UPLOAD_ATTACHMENT" ->
               {HandlerError.DownloadFailed, FetchError.TokenMissing,
                FetchError.ApiError, FetchError.NetworkError}
          [] type = "UPLOAD_ATTACHMENT_BASE64" ->
               {FetchError.TokenMissing, FetchError.ApiError,
                FetchError.NetworkError}
          [] type \in MessageTypes -> {}
          [] OTHER -> {HandlerError.UnknownMessage}
  IN
  /\ \E id \in MessageIds :
       /\ gateway[id].state = "pending"
       /\ \/ /\ CanFulfil(gateway[id].type)
             /\ gateway' = [gateway EXCEPT ![id] =
                              [type |-> "none", state |-> "fulfilled",
                               reason |-> "none"]]
          \/ \E reason \in Rejections(gateway[id].type) :
               gateway' = [gateway EXCEPT ![id] =
                             [type |-> "none", state |-> "rejected",
                              reason |-> reason]]
  /\ UNCHANGED responses
  /\ UNCHANGED <<composerVars, noteVars, injectorVars, extractorVars, notifierVars, pageVars>>

\* .then(sendResponse)
ThenSendResponse ==
  /\ \E id \in MessageIds :
       /\ gateway[id].state = "fulfilled"
       /\ responses' = [responses EXCEPT ![id] =
                          Append(@, [error |-> "none", payload |-> TRUE])]
       /\ gateway' = [gateway EXCEPT ![id].state = "done"]
  /\ UNCHANGED <<composerVars, noteVars, injectorVars, extractorVars, notifierVars, pageVars>>

CatchRethrows(id) ==
  /\ responses' = responses
  /\ gateway' = [gateway EXCEPT ![id].state = "done"]

\* .catch(error => sendResponse({ error: error.message }))
CatchHandler(id) ==
  /\ responses' = [responses EXCEPT ![id] =
                     Append(@, [error |-> gateway[id].reason,
                                payload |-> FALSE])]
  /\ gateway' = [gateway EXCEPT ![id].state = "done"]

CatchSendResponse ==
  /\ \E id \in MessageIds :
       /\ gateway[id].state = "rejected"
       /\ CatchHandler(id)
  /\ UNCHANGED <<composerVars, noteVars, injectorVars, extractorVars, notifierVars, pageVars>>

GatewayInit ==
  /\ GatewayIdle
  /\ PageIdle
  /\ NotifierIdle
  /\ ExtractorIdle
  /\ ComposerIdle
  /\ NoteIdle
  /\ InjectorIdle


\* the event loop runs every queued promise reaction
GatewaySpec ==
  /\ GatewayInit
  /\ [][\/ SendMessage
        \/ HandleMessage
        \/ ThenSendResponse
        \/ CatchSendResponse]_vars
  /\ WF_vars(HandleMessage)
  /\ WF_vars(ThenSendResponse)
  /\ WF_vars(CatchSendResponse)

\* C8: a message never has more than one response; a response is the
\* payload of a fulfilled handler or an error object carrying the message
\* of the rejection; a handler that fails and a type without a case both
\* end rejected, hence with the error object; and every message sent is
\* eventually answered exactly once.
C8_ExactlyOneResponse ==
  /\ [](\A id \in MessageIds :
          /\ Len(responses[id]) <= 1
          /\ \A i \in DOMAIN responses[id] :
               LET r == responses[id][i] IN
               /\ r.payload = (r.error = "none")
               /\ r.payload = (gateway[id].reason = "none")
               /\ r.error = gateway[id].reason
          /\ gateway[id].state = "done" => Len(responses[id]) = 1)
  /\ [][\A id \in MessageIds :
          (gateway[id].state = "pending" /\ gateway'[id].state # "pending")
            => IF gateway[id].type \in MessageTypes
                 THEN \/ gateway'[id].state = "fulfilled"
                      \/ /\ gateway'[id].state = "rejected"
                         /\ gateway'[id].reason \in
                              {FetchError.TokenMissing, FetchError.ApiError,
                               HandlerError.DownloadFailed,
                               FetchError.NetworkError}
                 ELSE /\ gateway'[id].state = "rejected"
                      /\ gateway'[id].reason = HandlerError.UnknownMessage]_vars
  /\ \A id \in MessageIds :
       (gateway[id].state # "unsent") ~> (Len(responses[id]) = 1)

\* an unhandled type and a failed handler both answered with an error
C8_Witness ==
  \E id, other \in MessageIds :
    /\ gateway[id].state = "done"
    /\ responses[id] = <<[error |-> HandlerError.UnknownMessage,
                          payload |-> FALSE]>>
    /\ gateway[other].state = "done"
    /\ responses[other] = <<[error |-> FetchError.TokenMissing,
                             payload |-> FALSE]>>

(***************************************************************************)
(* InjectorSpec: GmailInjector.injectButtons over a host document.         *)
(* Host elements are numbered in document order; 0 is null.  A selector    *)
(* is the set of class tokens an element must carry ("data-message-id",    *)
(* "gh-mtb", "tooltip-More" and "aria-More" stand for the attribute        *)
(* selectors).  Injected buttons are counted at the host element they      *)
(* are children of; they carry none of the host tokens except T-I.         *)
(***************************************************************************)
\* bound on the host elements of the document
MaxNodes == 3

\* bound on the calls of injectButtons in one behaviour
MaxPasses == 2

\* the class sets of the host elements
NodeClasses ==
  {{}, {"T-I"}, {"gs"}, {"data-message-id"}, {"gs", "data-message-id"},
   {"gE", "iv", "gt"}, {"gH"}, {"bGI"}, {"tooltip-More"}, {"gD"},
   {"ade"}, {"ade", "bGI"}}

Nodes == DOMAIN parent

RECURSIVE Ancestors(_)
Ancestors(n) ==
  IF parent[n] = 0 THEN {} ELSE {parent[n]} \cup Ancestors(parent[n])

Descendants(n) == {d \in Nodes : n \in Ancestors(d)}

Matches(n, selector) == selector \subseteq classes[n]

\* first element of a set in document order, 0 when there is none
First(S) == IF S = {} THEN 0 ELSE CHOOSE n \in S : \A m \in S : n <= m

\* element.querySelector(selector)
QuerySelector(n, selector) ==
  First({d \in Descendants(n) : Matches(d, selector)})

\* element.closest(selector)
Closest(n, selector) ==
  LET found == {a \in Ancestors(n) \cup {n} : Matches(a, selector)}
  IN  IF found = {} THEN 0 ELSE CHOOSE a \in found : \A b \in found : b <= a

\* element?.parentElement
ParentElement(n) == IF n = 0 THEN 0 ELSE parent[n]

\* a || b on element references
OrElse(a, b) == IF a # 0 THEN a ELSE b

\* document.querySelectorAll(selector) as a list in document order
RECURSIVE InOrder(_)
InOrder(S) ==
  IF S = {} THEN <<>> ELSE <<First(S)>> \o InOrder(S \ {First(S)})

QuerySelectorAll(selector) == InOrder({n \in Nodes : Matches(n, selector)})


\* element.querySelector('.asana-gmail-btn-mini')
HasMiniButton(st, n) ==
  \E d \in Descendants(n) \cup {n} : st.miniButtons[d] > 0


AddMiniButton(st, at, marked, strategy) ==
  [st EXCEPT !.miniButtons[at] = @ + 1,
             !.injectedButtons = @ \cup {marked},
             !.miniTriggers[marked] = Append(@, strategy)]

\* the callback of toolbars.forEach in injectToolbarButtons; a toolbar
\* that holds an injected T-I button is skipped before .T-I is queried
ToolbarStep(st, toolbar) ==
  LET AddToolbarButton(st0, at, marked) ==
        [st0 EXCEPT !.toolbarButtons[at] = @ + 1,
                   !.injectedButtons = @ \cup {marked}]
  IN
  LET \* element.firstChild is not null
      HasFirstChild(st0, n) ==
        \/ \E d \in Nodes : parent[d] = n
        \/ st0.miniButtons[n] > 0
        \/ st0.toolbarButtons[n] > 0
  IN
  LET \* element.querySelector('.asana-gmail-btn')
      HasToolbarButton(st0, n) ==
        \E d \in Descendants(n) \cup {n} : st0.toolbarButtons[d] > 0
  IN
  IF toolbar \in st.injectedButtons \/ HasToolbarButton(st, toolbar)
    THEN st
    ELSE LET hostButton == QuerySelector(toolbar, {"T-I"})
             insertParent ==
               IF hostButton # 0 THEN parent[hostButton]
               ELSE IF HasFirstChild(st, toolbar) THEN toolbar
               ELSE 0
         IN  IF insertParent = 0 THEN st
             ELSE AddToolbarButton(st, insertParent, toolbar)

\* Strategy 1: headerArea and actionsArea of a .gs container, 0 when the
\* callback returns without one
ExpandedActionsArea(messageContainer) ==
  LET headerArea ==
        OrElse(QuerySelector(messageContainer, {"gE", "iv", "gt"}),
        OrElse(QuerySelector(messageContainer, {"gH"}),
               QuerySelector(messageContainer, {"h7"})))
  IN
  IF headerArea = 0 THEN 0
  ELSE
    LET found ==
          OrElse(QuerySelector(headerArea, {"bGI"}),
          OrElse(QuerySelector(headerArea, {"adf", "ads"}),
          OrElse(QuerySelector(messageContainer, {"amn"}),
          OrElse(ParentElement(QuerySelector(messageContainer,
                                             {"tooltip-More"})),
                 ParentElement(QuerySelector(messageContainer,
                                             {"aria-More"}))))))
        dateElement ==
          OrElse(QuerySelector(headerArea, {"g3"}),
                 First({d \in Descendants(headerArea) :
                          /\ Matches(d, {"gK"})
                          /\ \E a \in Ancestors(d) : Matches(a, {"gH"})}))
    IN  IF found # 0 THEN found ELSE ParentElement(dateElement)

\* Strategy 1: the callback of expandedMessages.forEach
ExpandedMessageStep(st, messageContainer) ==
  IF \/ messageContainer \in st.injectedButtons
     \/ HasMiniButton(st, messageContainer)
    THEN st
    ELSE
      LET actionsArea == ExpandedActionsArea(messageContainer)
      IN  IF actionsArea = 0 THEN st
          ELSE AddMiniButton(st, actionsArea, messageContainer, "expanded")

\* Strategy 2: actionsArea of a [data-message-id] container
ContainerActionsArea(messageContainer) ==
  OrElse(QuerySelector(messageContainer, {"bGI"}),
  OrElse(QuerySelector(messageContainer, {"adf", "ads"}),
         ParentElement(QuerySelector(messageContainer, {"tooltip-More"}))))

MessageContainerStepUnguarded(st, messageContainer) ==
  LET actionsArea == ContainerActionsArea(messageContainer)
  IN  IF actionsArea = 0 THEN st
      ELSE AddMiniButton(st, actionsArea, messageContainer, "container")

\* Strategy 2: the callback of messageContainers.forEach
MessageContainerStep(st, messageContainer) ==
  IF \/ messageContainer \in st.injectedButtons
     \/ HasMiniButton(st, messageContainer)
    THEN st
    ELSE
      LET actionsArea == ContainerActionsArea(messageContainer)
      IN  IF actionsArea = 0 THEN st
          ELSE AddMiniButton(st, actionsArea, messageContainer, "container")

\* Strategy 3: the message container and the row of a sender element
SenderContainer(senderEl) ==
  OrElse(Closest(senderEl, {"gs"}),
  OrElse(Closest(senderEl, {"data-message-id"}),
         Closest(senderEl, {"gE"})))

SenderRow(senderEl) ==
  OrElse(Closest(senderEl, {"gH"}),
  OrElse(Closest(senderEl, {"h7"}), ParentElement(senderEl)))

\* Strategy 3: the callback of senderElements.forEach
SenderStep(st, senderEl) ==
  LET messageContainer == SenderContainer(senderEl)
  IN
  IF \/ messageContainer = 0
     \/ messageContainer \in st.injectedButtons
     \/ HasMiniButton(st, messageContainer)
    THEN st
    ELSE
      LET senderRow == SenderRow(senderEl)
      IN  IF senderRow = 0 THEN st
          ELSE AddMiniButton(st, senderRow, messageContainer, "sender")

\* list.forEach(callback), the callback named by `strategy`
RECURSIVE ForEach(_, _, _)
ForEach(strategy, list, st) ==
  IF list = <<>> THEN st
  ELSE LET n == Head(list)
           next == CASE strategy = "toolbar" -> ToolbarStep(st, n)
                     [] strategy = "expanded" -> ExpandedMessageStep(st, n)
                     [] strategy = "container" -> MessageContainerStep(st, n)
                     [] strategy = "sender" -> SenderStep(st, n)
       IN  ForEach(strategy, Tail(list), next)


\* document.querySelectorAll('.gE .gD, .gH .gD')
SenderElements ==
  InOrder({n \in Nodes :
             /\ Matches(n, {"gD"})
             /\ \E a \in Ancestors(n) :
                  Matches(a, {"gE"}) \/ Matches(a, {"gH"})})


RECURSIVE SumUpTo(_, _)
SumUpTo(counts, n) ==
  IF n = 0 THEN 0 ELSE counts[n] + SumUpTo(counts, n - 1)


\* numberings of a tree in document order: the parent of an element is
\* the root, the previous element or one of its ancestors
RECURSIVE AncestorsIn(_, _)
AncestorsIn(par, n) ==
  IF par[n] = 0 THEN {} ELSE {par[n]} \cup AncestorsIn(par, par[n])

Documents(size) ==
  {par \in [1..size -> 0..(size - 1)] :
     /\ \A n \in 1..size : par[n] < n
     /\ \A n \in 2..size :
          par[n] \in {0, n - 1} \cup AncestorsIn(par, n - 1)}

InjectorInit ==
  /\ \E size \in 1..MaxNodes :
       /\ parent \in Documents(size)
       /\ classes \in [1..size -> NodeClasses]
       /\ toolbarButtons = [n \in 1..size |-> 0]
       /\ miniButtons = [n \in 1..size |-> 0]
       /\ miniTriggers = [n \in 1..size |-> <<>>]
  /\ injectedButtons = {}
  /\ passes = 0
  /\ ObserverIdle
  /\ ComposerIdle
  /\ NoteIdle
  /\ GatewayIdle
  /\ PageIdle
  /\ NotifierIdle
  /\ ExtractorIdle

\* the document after injectButtons(): the toolbars, then the messages
AfterInjectButtons ==
  LET InjectMessageButtons(st) ==
        ForEach("sender", SenderElements,
          ForEach("container", QuerySelectorAll({"data-message-id"}),
            ForEach("expanded", QuerySelectorAll({"gs"}), st)))
  IN
  LET \* injectToolbarButtons: one querySelectorAll per selector, in this order
      InjectToolbarButtons(st) ==
        ForEach("toolbar", QuerySelectorAll({"gh-mtb"}),
          ForEach("toolbar", QuerySelectorAll({"G-atb"}),
            ForEach("toolbar", QuerySelectorAll({"ade"}), st)))
  IN
  InjectMessageButtons(InjectToolbarButtons(
    [toolbarButtons |-> toolbarButtons,
     miniButtons |-> miniButtons,
     injectedButtons |-> injectedButtons,
     miniTriggers |-> miniTriggers]))

\* injectButtons() called on its own, with no observer set up
InjectButtons ==
  /\ passes < MaxPasses
  /\ ~observing
  /\ LET st == AfterInjectButtons
     IN  /\ toolbarButtons' = st.toolbarButtons
         /\ miniButtons' = st.miniButtons
         /\ injectedButtons' = st.injectedButtons
         /\ miniTriggers' = st.miniTriggers
  /\ passes' = passes + 1
  /\ UNCHANGED <<parent, classes, observing, clock, timerCount,
                 pendingTimers, debounceTimer, lastNotified>>
  /\ UNCHANGED <<composerVars, noteVars, gatewayVars, extractorVars, notifierVars, pageVars>>


InjectorSpec == InjectorInit /\ [][InjectButtons]_vars

\* C7 as stated: after a first call of injectButtons a further call on the
\* unchanged document leaves the number of trigger elements as it is.
C7_Original ==
  [][LET \* document.querySelectorAll('.asana-gmail-btn, .asana-gmail-btn-mini').length
         TriggerCount ==
           SumUpTo(toolbarButtons, Len(toolbarButtons))
             + SumUpTo(miniButtons, Len(miniButtons))
     IN  passes >= 1 => TriggerCount' = TriggerCount]_vars

(***************************************************************************)
(* Extractor: EmailExtractor.getAllThreadAttachments (part_001:525-676).   *)
(*                                                                         *)
(* The thread view of the host document is reduced to what the scan        *)
(* reads.  thread.containers lists, in document order, the elements that   *)
(* match one of the attachment selectors, each with the message container  *)
(* closest() finds for it (0: none, the 'global' key), the name it shows   *)
(* ("" when no name is found) and the href of its download link ("" when   *)
(* it has none).  thread.rows lists the collapsed rows (.kv, .kQ,          *)
(* .h7:not(.gs)) with the text of the count badge, the presence of a       *)
(* paperclip and the sender getSenderFromCollapsed reads from the row.     *)
(* thread.senders[k] is what getSenderFromMessage reads from message       *)
(* container k.  Texts that are only copied into the result (size, date,   *)
(* message identifier, collapsedElement) are left out.                     *)
(***************************************************************************)
\* bound on the attachment containers of the thread view
MaxContainers == 2
\* bound on the collapsed rows of the thread view
MaxRows == 1
\* bound on the expanded message containers of the thread view
MaxThreadMessages == 2

AttachmentUrls == {"", "https://mail.google.com/?attid=0.1"}


\* s.split(' ')[0]
RECURSIVE FirstWord(_)
FirstWord(s) ==
  IF s = <<>> \/ Head(s) = " " THEN <<>>
  ELSE <<Head(s)>> \o FirstWord(Tail(s))


RECURSIVE GroupContainers(_, _)
GroupContainers(map, cs) ==
  LET \* one iteration of allAttachmentContainers.forEach (547-588)
      GroupContainer(m, c) ==
        LET \* position of the entry of attachmentsByMessage with this key, 0 if none
            MapIndex(m0, key) ==
              IF \E i \in 1..Len(m0) : m0[i].container = key
              THEN CHOOSE i \in 1..Len(m0) : m0[i].container = key
              ELSE 0
        IN
        LET m1 == IF MapIndex(m, c.message) = 0
                    THEN Append(m, [container |-> c.message,
                                    attachments |-> <<>>])
                    ELSE m
            i == MapIndex(m1, c.message)
            existingAtts == m1[i].attachments
        IN IF c.name = "" THEN m1
           ELSE IF \E k \in 1..Len(existingAtts) : existingAtts[k].name = c.name
           THEN m1
           ELSE [m1 EXCEPT ![i].attachments =
                   Append(existingAtts, [name |-> c.name, url |-> c.url])]
  IN
  IF cs = <<>> THEN map
  ELSE GroupContainers(GroupContainer(map, Head(cs)), Tail(cs))


RECURSIVE ConvertMap(_, _, _)
ConvertMap(messages, map, senders) ==
  LET \* one iteration of attachmentsByMessage.forEach (591-621)
      ExpandedMessage(data, globalIndex, senders0) ==
        LET \* an attachment of an expanded message (606-610); it has no
            \* isCollapsedPlaceholder property, which reads as false
            ExpandedAttachment(att, globalIndex0, attIndex) ==
              [id |-> <<"msg", globalIndex0, "-att", attIndex>>,
               name |-> att.name,
               url |-> att.url,
               isCollapsedPlaceholder |-> FALSE,
               messageIndex |-> globalIndex0]
        IN
        LET \* 'Pièces jointes' and 'Message replié'
            GlobalSender == <<"P", "i", "e", "c", "e", "s", " ",
                              "j", "o", "i", "n", "t", "e", "s">>
        IN
        [index |-> globalIndex,
         sender |-> IF data.container # 0 THEN senders0[data.container]
                    ELSE GlobalSender,
         attachments |-> [k \in 1..Len(data.attachments) |->
                            ExpandedAttachment(data.attachments[k],
                                               globalIndex, k - 1)],
         expanded |-> TRUE,
         attachmentCount |-> Null]
  IN
  IF map = <<>> THEN messages
  ELSE IF Head(map).attachments = <<>>
  THEN ConvertMap(messages, Tail(map), senders)
  ELSE ConvertMap(Append(messages,
                         ExpandedMessage(Head(map), Len(messages), senders)),
                  Tail(map), senders)

\* `${placeholderText} (${count})`
PlaceholderName(count) == <<"collapsedAttachments", " (", count, ")">>

\* the attachment of a collapsed message (659-666)
PlaceholderAttachmentWithLink(globalIndex, count) ==
  [id |-> <<"msg", globalIndex, "-collapsed">>,
   name |-> PlaceholderName(count),
   url |-> "https://mail.google.com/?attid=0.1",
   isCollapsedPlaceholder |-> TRUE,
   messageIndex |-> globalIndex]

PlaceholderAttachment(globalIndex, count) ==
  [id |-> <<"msg", globalIndex, "-collapsed">>,
   name |-> PlaceholderName(count),
   url |-> Null,
   isCollapsedPlaceholder |-> TRUE,
   messageIndex |-> globalIndex]


RECURSIVE ScanRows(_, _)
ScanRows(messages, rows) ==
  LET \* one iteration of collapsedRows.forEach (627-673)
      ScanRow(messages0, row) ==
        LET \* s.includes(w)
            Includes(s, w) ==
              \E i \in 0..(Len(s) - Len(w)) : SubSeq(s, i + 1, i + Len(w)) = w
        IN
        LET CollapsedSender == <<"M", "e", "s", "s", "a", "g", "e", " ",
                                 "r", "e", "p", "l", "i", "e">>
        IN
        LET existingMsg ==
              \E k \in 1..Len(messages0) :
                /\ messages0[k].sender # <<>>
                /\ Includes(row.sender, FirstWord(messages0[k].sender))
            count == IF row.badge \in {Null, ""} THEN "?" ELSE row.badge
            globalIndex == Len(messages0)
        IN IF ~(row.badge # Null \/ row.clip) THEN messages0
           ELSE IF existingMsg THEN messages0
           ELSE Append(messages0,
                  [index |-> globalIndex,
                   sender |-> IF row.sender # <<>> THEN row.sender
                              ELSE CollapsedSender,
                   attachments |-> <<PlaceholderAttachment(globalIndex, count)>>,
                   expanded |-> FALSE,
                   attachmentCount |-> count])
  IN
  IF rows = <<>> THEN messages
  ELSE ScanRows(ScanRow(messages, Head(rows)), Tail(rows))


ExtractorInit ==
  LET \* sender texts, as sequences of characters
      SenderTexts == {<<>>, <<"a">>, <<"a", " ", "b">>, <<" ", "a">>}
  IN
  LET SeqsUpTo(S, n) == UNION {[1..k -> S] : k \in 0..n}
  IN
  LET CollapsedRows ==
        LET \* text of the count badge of a collapsed row; Null: the row has no badge
            BadgeTexts == {Null, "2"}
        IN
          [badge : BadgeTexts, clip : BOOLEAN, sender : SenderTexts]
  IN
  LET AttachmentContainers ==
        LET AttachmentNames == {"", "a.pdf", "b.png"}
        IN
        [message : 0..MaxThreadMessages, name : AttachmentNames,
         url : AttachmentUrls]
  IN
  /\ thread \in [containers : SeqsUpTo(AttachmentContainers, MaxContainers),
                 rows : SeqsUpTo(CollapsedRows, MaxRows),
                 senders : [1..MaxThreadMessages -> SenderTexts]]
  /\ threadAttachments = <<>>
  /\ scanned = FALSE
  /\ attachments = <<>>
  /\ ComposerIdle
  /\ NoteIdle
  /\ InjectorIdle
  /\ GatewayIdle
  /\ PageIdle
  /\ NotifierIdle

\* this.threadAttachments = window.EmailExtractor.getAllThreadAttachments()
GetAllThreadAttachments ==
  LET getAllThreadAttachments(t) ==
        ScanRows(ConvertMap(<<>>, GroupContainers(<<>>, t.containers), t.senders),
                 t.rows)
  IN
  /\ ~scanned
  /\ threadAttachments' = getAllThreadAttachments(thread)
  /\ scanned' = TRUE
  /\ UNCHANGED <<thread, attachments>>
  /\ UNCHANGED <<composerVars, noteVars, injectorVars, gatewayVars, notifierVars, pageVars>>


ExtractorSpec == ExtractorInit /\ [][GetAllThreadAttachments]_vars

\* C11: in every result of getAllThreadAttachments a message with
\* expanded = false carries exactly one attachment, which is a placeholder
\* holding the count hint, and every attachment flagged as placeholder has a
\* null download reference, so that no collapsed message carries an
\* attachment with a usable URL.
C11_CollapsedOnlyPlaceholders ==
  scanned =>
    \A k \in 1..Len(threadAttachments) :
      LET m == threadAttachments[k] IN
        /\ ~m.expanded =>
             /\ Len(m.attachments) = 1
             /\ m.attachments[1].isCollapsedPlaceholder
             /\ m.attachments[1].name = PlaceholderName(m.attachmentCount)
             /\ \A i \in 1..Len(m.attachments) :
                  m.attachments[i].url \notin (AttachmentUrls \ {""})
        /\ \A i \in 1..Len(m.attachments) :
             m.attachments[i].isCollapsedPlaceholder =>
               m.attachments[i].url = Null

\* a scan that returned an expanded message with a downloadable attachment
\* followed by a collapsed message
C11_Witness ==
  /\ scanned
  /\ \E k, l \in 1..Len(threadAttachments) :
       /\ threadAttachments[k].expanded
       /\ threadAttachments[k].attachments[1].url # ""
       /\ ~threadAttachments[l].expanded
       /\ threadAttachments[l].attachmentCount = "2"

(***************************************************************************)
(* Open / submit / close cycles: a loaded composer is used, closed (by the *)
(* user or by the auto-close timer) and opened again.  The composer that   *)
(* was opened again is followed up to the first await of open().           *)
(***************************************************************************)

ReopenSpec == SubmitInit /\ [][\/ Submit
                               \/ CallAnswered
                               \/ EmlDownloaded
                               \/ EmlUploaded
                               \/ AttachmentDownloaded
                               \/ AttachmentUploaded
                               \/ LabelDone
                               \/ AutoCloseFire
                               \/ UserTypeTaskName
                               \/ UserSwitchMode
                               \/ UserClose
                               \/ RemoveOverlay
                               \/ UserCloseInFlight
                               \/ Open]_vars

ShowNotification ==
  LET \* chrome.notifications.create: the browser allocates the next identifier
      NextNotificationId ==
        IF \E id \in NotificationIds : notifications[id].state = "none"
        THEN CHOOSE id \in NotificationIds :
               /\ notifications[id].state = "none"
               /\ \A other \in NotificationIds :
                    notifications[other].state = "none" => id <= other
        ELSE 0
  IN
  LET NotificationUrls == {Null, "https://app.asana.com/0/0/T1"}
  IN
  /\ NextNotificationId # 0
  /\ \E url \in NotificationUrls :
       notifications' = [notifications EXCEPT ![NextNotificationId] =
                           [state |-> "creating", url |-> url]]
  /\ UNCHANGED <<linkStore, clickHandlers, clicked, handled, opened>>
  /\ UNCHANGED <<composerVars, noteVars, injectorVars, gatewayVars,
                 extractorVars, pageVars>>

\* the callback of chrome.notifications.create
CreateCallback(id) ==
  /\ notifications[id].state = "creating"
  /\ notifications' = [notifications EXCEPT ![id].state = "shown"]
  /\ linkStore' = IF notifications[id].url # Null
                    THEN [linkStore EXCEPT ![id] = notifications[id].url]
                    ELSE linkStore
  /\ UNCHANGED <<clickHandlers, clicked, handled, opened>>
  /\ UNCHANGED <<composerVars, noteVars, injectorVars, gatewayVars,
                 extractorVars, pageVars>>

\* a click on a displayed notification: the listener runs up to its await
ClickDelivered(id) ==
  /\ notifications[id].state = "shown"
  /\ clicked[id] < MaxClicks
  /\ clicked' = [clicked EXCEPT ![id] = @ + 1]
  /\ clickHandlers' = [clickHandlers EXCEPT ![id] = Append(@, linkStore[id])]
  /\ UNCHANGED <<notifications, linkStore, handled, opened>>
  /\ UNCHANGED <<composerVars, noteVars, injectorVars, gatewayVars,
                 extractorVars, pageVars>>

\* the listener after its await, from `const url = data[...]` to the end
ClickResumed(id) ==
  /\ clickHandlers[id] # <<>>
  /\ LET url == Head(clickHandlers[id]) IN
       /\ opened' = IF url # Null THEN [opened EXCEPT ![id] = @ + 1]
                    ELSE opened
       /\ linkStore' = IF url # Null THEN [linkStore EXCEPT ![id] = Null]
                       ELSE linkStore
  /\ clickHandlers' = [clickHandlers EXCEPT ![id] = Tail(@)]
  /\ notifications' = [notifications EXCEPT ![id].state = "cleared"]
  /\ handled' = [handled EXCEPT ![id] = @ + 1]
  /\ UNCHANGED clicked
  /\ UNCHANGED <<composerVars, noteVars, injectorVars, gatewayVars,
                 extractorVars, pageVars>>

NotifierInit ==
  /\ NotifierIdle
  /\ ComposerIdle
  /\ NoteIdle
  /\ InjectorIdle
  /\ GatewayIdle
  /\ PageIdle
  /\ ExtractorIdle


NotifierSpec == NotifierInit /\ [][\/ ShowNotification
                                   \/ \E id \in NotificationIds : CreateCallback(id)
                                   \/ \E id \in NotificationIds : ClickDelivered(id)
                                   \/ \E id \in NotificationIds : ClickResumed(id)]_vars

\* C14 (as stated): the link of a notification is stored under its
\* identifier and consumed on click, so that for one notification the link
\* is opened at most once however many click events are delivered, and after
\* a handled click no entry for that identifier remains in storage.
C14_Original ==
  \A id \in NotificationIds :
    /\ notifications[id].state = "shown" /\ clicked[id] = 0 =>
         linkStore[id] = notifications[id].url
    /\ opened[id] <= 1
    /\ handled[id] > 0 => linkStore[id] = Null

(***************************************************************************)
(* The settings surface (popup.js:289-314).  Its save handler builds a     *)
(* record from its own controls and writes it over the stored one with     *)
(* chrome.storage.local.set({ preferences }); the record has no            *)
(* lastWorkspaceId and no lastProjectId.                                   *)
(***************************************************************************)

\* click on the save button of the settings surface
SaveSettings ==
  LET PopupRecords ==
        [defaultWorkspace : {None, "W2"},
         lastWorkspaceId  : {None},
         defaultProject   : {None, "P2"},
         lastProjectId    : {None},
         autoClose        : {FALSE}]
  IN
  /\ \E record \in PopupRecords :
       /\ record # storedPrefs
       /\ storedPrefs' = record
  /\ UNCHANGED <<modal, pc, mode, taskName, preferences, workspaces,
                 workspaceSel, wsCall, cleared, projects, tags,
                 selectedProject, selectedTags, selectedExistingTask,
                 customFields, customFieldValues, taskDropdown,
                 projectEnabled, tagsEnabled, searchEnabled, createEnabled,
                 status, sub, trace, closeTimer, removeTimers>>
  /\ UNCHANGED <<noteVars, injectorVars, gatewayVars, extractorVars,
                 notifierVars, pageVars>>


SettingsSpec == ComposerInit /\ [][\/ Open
                                   \/ PrefsLoaded
                                   \/ WorkspacesLoaded
                                   \/ UserSelectWorkspace
                                   \/ ListsLoaded
                                   \/ UserPickProject
                                   \/ UserClose
                                   \/ RemoveOverlay
                                   \/ SaveSettings]_vars


\* C15 (as stated): no save discards the other component's update: a save
\* of the settings surface leaves the stored last-used identifiers as the
\* composer saved them, and a save of the composer leaves the stored
\* settings as the settings surface saved them.
C15_Original ==
  [][LET \* the part of the record the composer edits
         LastUsedOf(record) ==
           [lastWorkspaceId |-> record.lastWorkspaceId,
            lastProjectId |-> record.lastProjectId]
         \* the part of the record the settings surface edits
         SettingsOf(record) ==
           [defaultWorkspace |-> record.defaultWorkspace,
            defaultProject |-> record.defaultProject,
            autoClose |-> record.autoClose]
     IN  /\ SaveSettings => LastUsedOf(storedPrefs') = LastUsedOf(storedPrefs)
         /\ ~SaveSettings => SettingsOf(storedPrefs') = SettingsOf(storedPrefs)
    ]_vars


\* C16: ready -> submitting -> (closed on success with auto-close | ready on
\* error).  While a submission is in flight the submit control is disabled
\* and a CREATE_TASK / ADD_COMMENT is only issued from a ready composer, so
\* the submission in flight has issued exactly one; when the call fails in
\* a composer that is still open, the composer is ready again with an error
\* status and the submit control enabled; a success with auto-close arms
\* the timer that closes the composer.
C16_SubmitCycle ==
  /\ [](LET \* CREATE_TASK / ADD_COMMENT messages in the log of the current
            \* submission
            CallsIssued ==
              Cardinality({i \in 1..Len(trace) :
                             trace[i].type \in {"CREATE_TASK", "ADD_COMMENT"}})
        IN  pc # "idle" => ~createEnabled /\ CallsIssued = 1)
  /\ [][pc # "awaitCall" /\ pc' = "awaitCall" =>
          /\ pc = "idle" /\ createEnabled /\ modal = "open"
          /\ trace' = <<trace'[1]>>]_vars
  /\ [][pc = "awaitCall" /\ trace'[Len(trace')].type = "failed"
          /\ modal = "open" =>
          /\ pc' = "idle"
          /\ createEnabled'
          /\ status' = "error"
          /\ modal' = "open"]_vars
  /\ [][pc # "idle" /\ trace'[Len(trace')].type = "SHOW_NOTIFICATION" =>
          /\ pc' = "idle"
          /\ preferences.autoClose => closeTimer']_vars

\* a failed call has left the open composer ready for another submission
C16_Witness ==
  /\ modal = "open"
  /\ pc = "idle"
  /\ createEnabled
  /\ status = "error"
  /\ trace # <<>>
  /\ trace[Len(trace)].type = "failed"

\* C17: within one submission at most one UPLOAD_ATTACHMENT_BASE64 request
\* is outstanding at any time, and the download of the next selected
\* attachment starts only when no upload is outstanding, the attachments
\* being taken in the order they were selected.
C17_SequentialTransfers ==
  /\ [](LET \* UPLOAD_ATTACHMENT_BASE64 requests of the current submission
            \* that have not been answered
            OutstandingUploads ==
              Cardinality({i \in 1..Len(trace) :
                             trace[i].type = "UPLOAD_ATTACHMENT_BASE64"})
              - Cardinality({i \in 1..Len(trace) :
                               trace[i].type \in {"uploaded", "uploadFailed"}})
        IN  /\ OutstandingUploads \in {0, 1}
            /\ OutstandingUploads = 1 <=> pc \in {"emlUpload", "attUpload"})
  /\ [][pc' = "attDownload" /\ (pc # "attDownload" \/ sub'.idx # sub.idx) =>
          /\ Cardinality({i \in 1..Len(trace') :
                            trace'[i].type = "UPLOAD_ATTACHMENT_BASE64"})
               = Cardinality({i \in 1..Len(trace') :
                                trace'[i].type \in {"uploaded", "uploadFailed"}})
          /\ sub'.idx > sub.idx
          /\ sub'.atts[sub'.idx]
          /\ \A k \in (sub.idx + 1)..(sub'.idx - 1) : ~sub'.atts[k]]_vars

\* the second attachment is being downloaded after the upload of the first
\* one was answered
C17_Witness ==
  /\ pc = "attDownload"
  /\ sub.idx = 2
  /\ sub.atts[1]
  /\ trace[Len(trace)].type = "uploaded"
  /\ trace[Len(trace) - 1].type = "UPLOAD_ATTACHMENT_BASE64"

(***************************************************************************)
(* The message containers the three strategies of injectMessageButtons     *)
(* resolve to, and the insertion point each of them finds.                 *)
(***************************************************************************)
\* the strategy resolves to element c as message container
Resolves(strategy, c) ==
  CASE strategy = "expanded" -> Matches(c, {"gs"})
    [] strategy = "container" -> Matches(c, {"data-message-id"})
    [] strategy = "sender" ->
         \E i \in 1..Len(SenderElements) :
           SenderContainer(SenderElements[i]) = c

\* the strategy finds an insertion point for message container c
FindsInsertionPoint(strategy, c) ==
  /\ Resolves(strategy, c)
  /\ CASE strategy = "expanded" -> ExpandedActionsArea(c) # 0
       [] strategy = "container" -> ContainerActionsArea(c) # 0
       [] strategy = "sender" ->
            \E i \in 1..Len(SenderElements) :
              /\ SenderContainer(SenderElements[i]) = c
              /\ SenderRow(SenderElements[i]) # 0

DebounceDelay == 200

TickMs == DebounceDelay \div 2

\* bound on the clock, in steps of TickMs
MaxTicks == 5
\* bound on the timers created before the host stops changing the document
MaxTimers == 3
\* bound on the host elements of the observed document
MaxObservedNodes == 2
\* cap on the injection passes of one behaviour
MaxLoopPasses == 12

\* the MutationObserver callback on a timer set that keeps the previous timer
NotifyWithoutClear(timers) ==
  /\ pendingTimers' = timers \cup {[id |-> timerCount + 1,
                                    due |-> clock + DebounceDelay]}
  /\ timerCount' = timerCount + 1
  /\ debounceTimer' = timerCount + 1
  /\ lastNotified' = clock

\* the MutationObserver callback: clearTimeout(this.debounceTimer);
\* this.debounceTimer = setTimeout(..., 200), on the pending timers `timers`
Notify(timers) ==
  /\ pendingTimers' = {t \in timers : t.id # debounceTimer}
                        \cup {[id |-> timerCount + 1,
                               due |-> clock + DebounceDelay]}
  /\ timerCount' = timerCount + 1
  /\ debounceTimer' = timerCount + 1
  /\ lastNotified' = clock

\* injectButtons() under an observer that is notified of every pass,
\* whether the pass inserted a trigger or not
ObservedPassAlwaysNotifies(timers) ==
  LET st == AfterInjectButtons
  IN  /\ toolbarButtons' = st.toolbarButtons
      /\ miniButtons' = st.miniButtons
      /\ injectedButtons' = st.injectedButtons
      /\ miniTriggers' = st.miniTriggers
      /\ passes' = passes + 1
      /\ Notify(timers)

\* injectButtons() under the observer: a pass that inserts a trigger is
\* followed by the observer callback
ObservedPass(timers) ==
  LET st == AfterInjectButtons
  IN  /\ toolbarButtons' = st.toolbarButtons
      /\ miniButtons' = st.miniButtons
      /\ injectedButtons' = st.injectedButtons
      /\ miniTriggers' = st.miniTriggers
      /\ passes' = passes + 1
      /\ IF st.toolbarButtons # toolbarButtons \/ st.miniButtons # miniButtons
           THEN Notify(timers)
           ELSE /\ pendingTimers' = timers
                /\ UNCHANGED <<timerCount, debounceTimer, lastNotified>>

\* init(): setupObserver() and the first injectButtons()
InitInjector ==
  /\ ~observing
  /\ passes = 0
  /\ observing' = TRUE
  /\ ObservedPass(pendingTimers)
  /\ UNCHANGED <<parent, classes, clock>>
  /\ UNCHANGED <<composerVars, noteVars, gatewayVars, extractorVars,
                 notifierVars, pageVars>>

\* the debounce timer fires: injectButtons()
DebounceFires ==
  /\ passes < MaxLoopPasses
  /\ \E t \in pendingTimers :
       /\ t.due = clock
       /\ ObservedPass(pendingTimers \ {t})
  /\ UNCHANGED <<parent, classes, observing, clock>>
  /\ UNCHANGED <<composerVars, noteVars, gatewayVars, extractorVars,
                 notifierVars, pageVars>>

\* time passes: up to MaxTicks steps, and further while a timer is
\* pending; no due timer is left behind
Tick ==
  /\ observing
  /\ clock < MaxTicks * TickMs \/ pendingTimers # {}
  /\ \A t \in pendingTimers : t.due >= clock + TickMs
  /\ clock' = clock + TickMs
  /\ UNCHANGED <<parent, classes, toolbarButtons, miniButtons,
                 injectedButtons, passes, miniTriggers, observing,
                 timerCount, pendingTimers, debounceTimer, lastNotified>>
  /\ UNCHANGED <<composerVars, noteVars, gatewayVars, extractorVars,
                 notifierVars, pageVars>>

\* the host changes a child list that no selector of the injector looks at
HostChurn ==
  /\ observing
  /\ timerCount < MaxTimers
  /\ Notify(pendingTimers)
  /\ UNCHANGED <<parent, classes, toolbarButtons, miniButtons,
                 injectedButtons, passes, miniTriggers, observing, clock>>
  /\ UNCHANGED <<composerVars, noteVars, gatewayVars, extractorVars,
                 notifierVars, pageVars>>

\* the host appends a new element (the last one in document order)
HostAddsContainer ==
  /\ observing
  /\ timerCount < MaxTimers
  /\ Len(parent) < MaxObservedNodes
  /\ \E par \in Documents(Len(parent) + 1), cls \in NodeClasses :
       /\ \A n \in Nodes : par[n] = parent[n]
       /\ parent' = par
       /\ classes' = Append(classes, cls)
  /\ toolbarButtons' = Append(toolbarButtons, 0)
  /\ miniButtons' = Append(miniButtons, 0)
  /\ miniTriggers' = Append(miniTriggers, <<>>)
  /\ Notify(pendingTimers)
  /\ UNCHANGED <<injectedButtons, passes, observing, clock>>
  /\ UNCHANGED <<composerVars, noteVars, gatewayVars, extractorVars,
                 notifierVars, pageVars>>

\* the host removes an injected trigger and keeps the element it was in
HostRemovesTrigger ==
  /\ observing
  /\ timerCount < MaxTimers
  /\ \E n \in Nodes :
       \/ /\ toolbarButtons[n] > 0
          /\ toolbarButtons' = [toolbarButtons EXCEPT ![n] = @ - 1]
          /\ UNCHANGED miniButtons
       \/ /\ miniButtons[n] > 0
          /\ miniButtons' = [miniButtons EXCEPT ![n] = @ - 1]
          /\ UNCHANGED toolbarButtons
  /\ Notify(pendingTimers)
  /\ UNCHANGED <<parent, classes, injectedButtons, passes, miniTriggers,
                 observing, clock>>
  /\ UNCHANGED <<composerVars, noteVars, gatewayVars, extractorVars,
                 notifierVars, pageVars>>

ObserverInit ==
  /\ \E size \in 1..MaxObservedNodes :
       /\ parent \in Documents(size)
       /\ classes \in [1..size -> NodeClasses]
       /\ toolbarButtons = [n \in 1..size |-> 0]
       /\ miniButtons = [n \in 1..size |-> 0]
       /\ miniTriggers = [n \in 1..size |-> <<>>]
  /\ injectedButtons = {}
  /\ passes = 0
  /\ ObserverIdle
  /\ ComposerIdle
  /\ NoteIdle
  /\ GatewayIdle
  /\ PageIdle
  /\ ExtractorIdle
  /\ NotifierIdle


ObserverSpec == ObserverInit /\ [][\/ InitInjector
                                   \/ DebounceFires
                                   \/ Tick
                                   \/ HostChurn
                                   \/ HostAddsContainer
                                   \/ HostRemovesTrigger]_vars

\* C18 (as stated): after any sequence of host mutations (new containers,
\* or the removal of an injected trigger whose container stays) the
\* debounced injection pass leaves every toolbar that has an insertion
\* point and every message container with an action area with exactly one
\* trigger.
C18_Original ==
  [][LET \* the triggers counted by counts in the elements of S
         RECURSIVE SumOver(_, _)
         SumOver(counts, S) ==
           IF S = {} THEN 0
           ELSE LET n == CHOOSE m \in S : TRUE
                IN  counts[n] + SumOver(counts, S \ {n})
         \* the message containers that have an action area
         EligibleContainers ==
           {c \in Nodes :
              \/ Matches(c, {"gs"}) /\ ExpandedActionsArea(c) # 0
              \/ Matches(c, {"data-message-id"}) /\ ContainerActionsArea(c) # 0}
         \* the toolbars that have an insertion point: a host .T-I button or a
         \* first child
         EligibleToolbars ==
           {t \in Nodes :
              /\ Matches(t, {"ade"}) \/ Matches(t, {"G-atb"}) \/ Matches(t, {"gh-mtb"})
              /\ QuerySelector(t, {"T-I"}) # 0 \/ \E d \in Nodes : parent[d] = t}
     IN  observing /\ passes' = passes + 1 =>
           /\ \A t \in EligibleToolbars :
                SumOver(toolbarButtons', Descendants(t) \cup {t}) = 1
           /\ \A c \in EligibleContainers :
                SumOver(miniButtons', Descendants(c) \cup {c}) = 1]_vars

\* C20: a notification that arrives while an injection timer is pending
\* cancels that timer and starts a new one: at most one injection timer is
\* pending at any time, it is the one of the latest notification, and an
\* injection pass of the observer runs only when the clock stands exactly
\* one delay (200 ms) after the latest notification, consuming that timer;
\* notifications less than one delay apart therefore share one pass.
C20_Debounce ==
  /\ [](/\ Cardinality(pendingTimers) <= 1
        /\ \A t \in pendingTimers :
             /\ t.id = debounceTimer
             /\ t.due = lastNotified + DebounceDelay
             /\ t.due >= clock)
  /\ [][timerCount' # timerCount =>
          pendingTimers' = {[id |-> timerCount + 1,
                             due |-> clock + DebounceDelay]}]_vars
  /\ [][observing /\ passes' = passes + 1 =>
          /\ clock = lastNotified + DebounceDelay
          /\ pendingTimers = {[id |-> debounceTimer, due |-> clock]}
          /\ \A t \in pendingTimers' : t \notin pendingTimers]_vars

\* two notifications less than one delay apart were followed by one pass of
\* the observer, one delay after the second
C20_Witness ==
  /\ observing
  /\ passes = 2
  /\ timerCount = 2
  /\ pendingTimers = {}
  /\ lastNotified = TickMs
  /\ clock = lastNotified + DebounceDelay

(***************************************************************************)
(* OverlaySpec: the life cycle of the composer's overlay                   *)
(* (ProjectSelector.open, createModal, close and the tail of createTask /  *)
(* addCommentToTask, asana-client.js) with a user who may activate a       *)
(* trigger or a close control at any time.  Overlays are numbered in the   *)
(* order createModal builds them.  Time is counted in ms; a timer fires    *)
(* when the clock reaches its due time.                                    *)
(***************************************************************************)
CloseDelay == 300
AutoCloseDelay == 2000
\* step of the clock
PageTick == CloseDelay \div 3
\* bound on the clock, in steps
MaxPageTicks == 24
\* bound on the overlays built in one behaviour
MaxOverlays == 2
\* bound on the timers set in one behaviour
MaxPageTimers == 4

otherVars == <<composerVars, noteVars, injectorVars, gatewayVars,
               extractorVars, notifierVars, wsCalls, searchTimeout,
               searchTimerCount, searchTimers, lastKeystroke, searchCalls,
               lookupCount, dropdownOpen>>

\* the click and keydown listeners of a trigger: handleButtonClick awaits
\* the preferences and the session, then calls open(), which resets the
\* draft and awaits loadPreferences()
ActivateTrigger ==
  /\ overlayCount + openCalls < MaxOverlays
  /\ openCalls' = openCalls + 1
  /\ UNCHANGED <<now, overlayCount, attached, modalRef, escapeHandler,
                 keydownListeners, clickListeners, autoClose, successes,
                 pageTimerCount, pageTimers>>
  /\ UNCHANGED otherVars

\* open() after loadPreferences(): createModal() assigns this.modal and
\* this.escapeHandler, adds the keydown listener and the click listeners of
\* the three pickers to the document; the overlay is appended to the body
OpenResumes ==
  /\ openCalls > 0
  /\ openCalls' = openCalls - 1
  /\ autoClose' \in BOOLEAN
  /\ overlayCount' = overlayCount + 1
  /\ modalRef' = overlayCount + 1
  /\ escapeHandler' = overlayCount + 1
  /\ keydownListeners' = keydownListeners \cup {overlayCount + 1}
  /\ clickListeners' = clickListeners + 3
  /\ attached' = attached \cup {overlayCount + 1}
  /\ UNCHANGED <<now, successes, pageTimerCount, pageTimers>>
  /\ UNCHANGED otherVars

\* close(): with a modal, remove the current Escape handler and set the
\* removal timer; timers are the pending timers without the one that runs
ClosePage(timers) ==
  IF modalRef # 0
    THEN /\ keydownListeners' = keydownListeners \ {escapeHandler}
         /\ pageTimerCount' = pageTimerCount + 1
         /\ pageTimers' = timers \cup
              {[id |-> pageTimerCount + 1, kind |-> "remove",
                due |-> now + CloseDelay, at |-> now, overlay |-> modalRef]}
    ELSE /\ pageTimers' = timers
         /\ UNCHANGED <<keydownListeners, pageTimerCount>>

\* a close control of an attached overlay (close button, cancel button, the
\* overlay itself) is clicked, or Escape reaches a registered handler
CloseCalled ==
  /\ attached # {} \/ keydownListeners # {}
  /\ pageTimerCount < MaxPageTimers
  /\ ClosePage(pageTimers)
  /\ UNCHANGED <<now, openCalls, overlayCount, attached, modalRef,
                 escapeHandler, clickListeners, autoClose, successes>>
  /\ UNCHANGED otherVars

\* the timer of close(): this.modal.remove(); this.modal = null; with
\* this.modal already null the callback throws
RemovalFires ==
  \E t \in pageTimers :
    /\ t.kind = "remove"
    /\ t.due = now
    /\ pageTimers' = pageTimers \ {t}
    /\ IF modalRef # 0
         THEN /\ attached' = attached \ {modalRef}
              /\ modalRef' = 0
         ELSE UNCHANGED <<attached, modalRef>>
    /\ UNCHANGED <<now, openCalls, overlayCount, escapeHandler,
                   keydownListeners, clickListeners, autoClose, successes,
                   pageTimerCount>>
    /\ UNCHANGED otherVars

\* the last turn of a submission that succeeded: success status,
\* SHOW_NOTIFICATION, and the auto-close timer if the preference is set
SubmissionSucceedsAlwaysCloses ==
  /\ modalRef # 0
  /\ successes < overlayCount
  /\ pageTimerCount + 1 < MaxPageTimers
  /\ successes' = successes + 1
  /\ pageTimerCount' = pageTimerCount + 1
  /\ pageTimers' = pageTimers \cup
       {[id |-> pageTimerCount + 1, kind |-> "autoClose",
         due |-> now + AutoCloseDelay, at |-> now, overlay |-> modalRef]}
  /\ UNCHANGED <<now, openCalls, overlayCount, attached, modalRef,
                 escapeHandler, keydownListeners, clickListeners, autoClose>>
  /\ UNCHANGED otherVars

SubmissionSucceeds ==
  /\ modalRef # 0
  /\ successes < overlayCount
  /\ pageTimerCount + 1 < MaxPageTimers
  /\ successes' = successes + 1
  /\ IF autoClose
       THEN /\ pageTimerCount' = pageTimerCount + 1
            /\ pageTimers' = pageTimers \cup
                 {[id |-> pageTimerCount + 1, kind |-> "autoClose",
                   due |-> now + AutoCloseDelay, at |-> now,
                   overlay |-> modalRef]}
       ELSE UNCHANGED <<pageTimerCount, pageTimers>>
  /\ UNCHANGED <<now, openCalls, overlayCount, attached, modalRef,
                 escapeHandler, keydownListeners, clickListeners, autoClose>>
  /\ UNCHANGED otherVars

\* the auto-close timer: () => this.close()
AutoCloseFires ==
  \E t \in pageTimers :
    /\ t.kind = "autoClose"
    /\ t.due = now
    /\ ClosePage(pageTimers \ {t})
    /\ UNCHANGED <<now, openCalls, overlayCount, attached, modalRef,
                   escapeHandler, clickListeners, autoClose, successes>>
    /\ UNCHANGED otherVars

\* time passes while a timer is pending (the clock is read by timers
\* only); a timer that is due fires before the clock moves on
PageTickPasses ==
  /\ now < MaxPageTicks * PageTick
  /\ pageTimers # {} \/ searchTimers # {}
  /\ \A t \in pageTimers : t.due > now
  /\ \A t \in searchTimers : t.due > now
  /\ now' = now + PageTick
  /\ UNCHANGED <<openCalls, overlayCount, attached, modalRef, escapeHandler,
                 keydownListeners, clickListeners, autoClose, successes,
                 pageTimerCount, pageTimers>>
  /\ UNCHANGED otherVars

OverlayInit ==
  /\ PageIdle
  /\ ComposerIdle
  /\ NoteIdle
  /\ InjectorIdle
  /\ GatewayIdle
  /\ NotifierIdle
  /\ ExtractorIdle

OverlaySpec ==
  OverlayInit /\ [][\/ ActivateTrigger
                    \/ OpenResumes
                    \/ CloseCalled
                    \/ RemovalFires
                    \/ SubmissionSucceeds
                    \/ AutoCloseFires
                    \/ PageTickPasses]_vars

\* C22 (as stated): when close() completes (its timer has removed the
\* overlay and reset this.modal), the overlay is off the page and none of
\* the listeners the composer added to the document remains: no Escape
\* handler of that overlay and no click listener beyond those of overlays
\* still attached, so the listeners do not grow across open/close cycles.
C22_Original ==
  [][modalRef # 0 /\ modalRef' = 0 =>
       /\ modalRef \notin attached'
       /\ modalRef \notin keydownListeners'
       /\ clickListeners' <= 3 * Cardinality(attached')]_vars

\* C23: the turn that shows the success status leaves the overlay, the
\* modal reference and the listeners alone and sets no removal timer; it
\* sets the auto-close timer exactly when the auto-close preference is
\* enabled, due 2000 ms later; an auto-close timer is set by no other step
\* and runs close() only when the clock has reached its due time.
C23_AutoCloseAfterDelay ==
  /\ [][successes' # successes =>
          /\ attached' = attached
          /\ modalRef' = modalRef
          /\ keydownListeners' = keydownListeners
          /\ pageTimers \subseteq pageTimers'
          /\ ~autoClose => pageTimers' = pageTimers
          /\ autoClose =>
               pageTimers' \ pageTimers =
                 {[id |-> pageTimerCount + 1, kind |-> "autoClose",
                   due |-> now + AutoCloseDelay, at |-> now,
                   overlay |-> modalRef]}]_vars
  /\ [][\A t \in pageTimers' \ pageTimers :
          t.kind = "autoClose" => successes' = successes + 1 /\ autoClose]_vars
  /\ [][\A t \in pageTimers \ pageTimers' :
          t.kind = "autoClose" => now = t.at + AutoCloseDelay]_vars

\* the auto-close timer of the only submission has just run close(), 2000 ms
\* or more after the composer was opened
C23_Witness ==
  /\ overlayCount = 1
  /\ successes = 1
  /\ autoClose
  /\ modalRef = 1
  /\ now >= AutoCloseDelay
  /\ pageTimers = {[id |-> 2, kind |-> "remove", due |-> now + CloseDelay,
                    at |-> now, overlay |-> 1]}

\* C28 (as stated): a timer set during one open/close cycle (the removal
\* timer of close(), the auto-close timer) that fires when this.modal is a
\* composer opened later neither removes nor closes that composer.
C28_Original ==
  [][\A t \in pageTimers \ pageTimers' :
       modalRef # 0 /\ t.overlay # modalRef =>
         /\ modalRef' = modalRef
         /\ attached' = attached
         /\ pageTimers' \subseteq pageTimers]_vars

\* C29 (as stated): at most one overlay is attached to the page, and an
\* attached overlay is the one this.modal refers to.
C29_Original ==
  /\ Cardinality(attached) <= 1
  /\ attached # {} => modalRef \in attached

(***************************************************************************)
(* SearchSpec: the task search of the comment mode                         *)
(* (setupTaskSearchAutocomplete, renderTaskSearchDropdown,                 *)
(* selectExistingTask) on a loaded composer, with onWorkspaceChange calls  *)
(* that run while other handlers are parked.  Workspace W1 holds project   *)
(* P1, tag G1 and task T1, workspace W2 holds project P2 and task T2.      *)
(***************************************************************************)
SearchDelay == 300
\* bound on the input events of one behaviour
MaxKeystrokes == 2

\* what the API serves for a workspace
ListsOf(w) ==
  IF w = "W1" THEN [projects |-> {"P1"}, tags |-> {"G1"}, tasks |-> {"T1"}]
              ELSE [projects |-> {"P2"}, tags |-> {}, tasks |-> {"T2"}]

searchFrame == <<modal, pc, taskName, workspaces, wsCall, createEnabled, sub,
                 trace, closeTimer, removeTimers, noteVars, injectorVars,
                 gatewayVars, extractorVars, notifierVars, openCalls,
                 overlayCount, attached, modalRef, escapeHandler,
                 keydownListeners, clickListeners, autoClose, successes,
                 pageTimerCount, pageTimers>>

\* the change event of the workspace select: onWorkspaceChange up to its
\* Promise.all; a click on the select is a click outside the task search
\* and closes its dropdown, a change by keyboard does not
SelectWorkspace ==
  /\ modal = "open"
  /\ mode = "create"
  /\ \E w \in workspaces \cup {None} :
       /\ w # workspaceSel
       /\ workspaceSel' = w
       /\ IF Truthy(w)
            THEN /\ wsCalls' = wsCalls \cup {[workspaceId |-> w]}
                 /\ searchEnabled' = searchEnabled
            ELSE /\ wsCalls' = wsCalls
                 /\ searchEnabled' = FALSE
  /\ selectedProject' = None
  /\ selectedTags' = {}
  /\ selectedExistingTask' = None
  /\ customFields' = {}
  /\ customFieldValues' = {}
  /\ cleared' = selectedProject
  /\ projectEnabled' = FALSE
  /\ tagsEnabled' = FALSE
  /\ dropdownOpen' \in {dropdownOpen, FALSE}
  /\ UNCHANGED <<mode, preferences, storedPrefs, projects, tags, taskDropdown,
                 status, now, searchTimeout, searchTimerCount, searchTimers,
                 lastKeystroke, searchCalls, lookupCount>>
  /\ UNCHANGED searchFrame

\* onWorkspaceChange after its Promise.all: the lists are stored, the
\* last-used project is selected if the list holds it, the pickers are
\* enabled and the workspace is saved; a rejected message shows an error.
\* The custom fields of the selected project are left to ListsLoaded.
ListsArrive ==
  \E c \in wsCalls, ok \in BOOLEAN :
    /\ wsCalls' = wsCalls \ {c}
    /\ IF ok
         THEN LET lists == ListsOf(c.workspaceId)
                  p == ProjectToSelect(preferences, FALSE)
                  found == Truthy(p) /\ p \in lists.projects
                  prefs1 == IF found THEN SavedLastProject(preferences, p)
                                     ELSE preferences
              IN  /\ projects' = lists.projects
                  /\ tags' = lists.tags
                  /\ selectedProject' = IF found THEN p ELSE selectedProject
                  /\ projectEnabled' = TRUE
                  /\ tagsEnabled' = (lists.tags # {})
                  /\ searchEnabled' = TRUE
                  /\ preferences' =
                       [prefs1 EXCEPT !.lastWorkspaceId = c.workspaceId]
                  /\ storedPrefs' = preferences'
                  /\ status' = status
         ELSE /\ status' = "error"
              /\ UNCHANGED <<projects, tags, selectedProject, projectEnabled,
                             tagsEnabled, searchEnabled, preferences,
                             storedPrefs>>
    /\ UNCHANGED <<mode, workspaceSel, cleared, selectedTags,
                   selectedExistingTask, customFields, customFieldValues,
                   taskDropdown, now, searchTimeout, searchTimerCount,
                   searchTimers, lastKeystroke, searchCalls, lookupCount,
                   dropdownOpen>>
    /\ UNCHANGED searchFrame

\* a click on a mode button: switchMode, and the dropdown closes because
\* the click is outside the task search
SwitchModeClick ==
  /\ modal = "open"
  /\ mode' = IF mode = "create" THEN "comment" ELSE "create"
  /\ dropdownOpen' = FALSE
  /\ UNCHANGED <<preferences, storedPrefs, workspaceSel, cleared, projects,
                 tags, selectedProject, selectedTags, selectedExistingTask,
                 customFields, customFieldValues, taskDropdown,
                 projectEnabled, tagsEnabled, searchEnabled, status, now,
                 wsCalls, searchTimeout, searchTimerCount, searchTimers,
                 lastKeystroke, searchCalls, lookupCount>>
  /\ UNCHANGED searchFrame

\* the input event of the search input: the trimmed value is captured,
\* the pending timer is cleared and a new one is set
InputEventKeepsTimer(value) ==
  /\ searchTimers' = searchTimers \cup
       {[id |-> searchTimerCount + 1, due |-> now + SearchDelay,
         query |-> Trim(value)]}
  /\ searchTimeout' = searchTimerCount + 1
  /\ searchTimerCount' = searchTimerCount + 1
  /\ lastKeystroke' = now

InputEvent(value) ==
  /\ searchTimers' = {t \in searchTimers : t.id # searchTimeout} \cup
       {[id |-> searchTimerCount + 1, due |-> now + SearchDelay,
         query |-> Trim(value)]}
  /\ searchTimeout' = searchTimerCount + 1
  /\ searchTimerCount' = searchTimerCount + 1
  /\ lastKeystroke' = now

\* the user edits the search input
UserTypesQuery ==
  /\ modal = "open"
  /\ mode = "comment"
  /\ searchEnabled
  /\ searchTimerCount < MaxKeystrokes
  /\ \E value \in {<<>>, <<" ", "a", " ">>, <<"a", "b">>, <<" ", "a", "b">>} :
       InputEvent(value)
  /\ UNCHANGED <<mode, preferences, storedPrefs, workspaceSel, cleared,
                 projects, tags, selectedProject, selectedTags,
                 selectedExistingTask, customFields, customFieldValues,
                 taskDropdown, projectEnabled, tagsEnabled, searchEnabled,
                 status, now, wsCalls, searchCalls, lookupCount, dropdownOpen>>
  /\ UNCHANGED searchFrame

\* the search timer: a short query empties and closes the dropdown, no
\* workspace ends the callback, otherwise SEARCH_TASKS is sent
SearchTimerFires ==
  \E t \in searchTimers :
    /\ t.due = now
    /\ searchTimers' = searchTimers \ {t}
    /\ IF Len(t.query) < 2
         THEN /\ taskDropdown' = {}
              /\ dropdownOpen' = FALSE
              /\ UNCHANGED <<searchCalls, lookupCount>>
         ELSE /\ UNCHANGED <<taskDropdown, dropdownOpen>>
              /\ IF ~Truthy(workspaceSel)
                   THEN UNCHANGED <<searchCalls, lookupCount>>
                   ELSE /\ lookupCount' = lookupCount + 1
                        /\ searchCalls' = searchCalls \cup
                             {[id |-> lookupCount + 1,
                               workspaceId |-> workspaceSel,
                               query |-> t.query]}
    /\ UNCHANGED <<mode, preferences, storedPrefs, workspaceSel, cleared,
                   projects, tags, selectedProject, selectedTags,
                   selectedExistingTask, customFields, customFieldValues,
                   projectEnabled, tagsEnabled, searchEnabled, status, now,
                   wsCalls, searchTimeout, searchTimerCount, lastKeystroke>>
    /\ UNCHANGED searchFrame

\* SEARCH_TASKS has answered: renderTaskSearchDropdown and the dropdown
\* opens; a rejected message is logged
SearchAnswered ==
  \E c \in searchCalls, ok \in BOOLEAN :
    /\ searchCalls' = searchCalls \ {c}
    /\ IF ok
         THEN /\ taskDropdown' \in {{}, ListsOf(c.workspaceId).tasks}
              /\ dropdownOpen' = TRUE
         ELSE UNCHANGED <<taskDropdown, dropdownOpen>>
    /\ UNCHANGED <<mode, preferences, storedPrefs, workspaceSel, cleared,
                   projects, tags, selectedProject, selectedTags,
                   selectedExistingTask, customFields, customFieldValues,
                   projectEnabled, tagsEnabled, searchEnabled, status, now,
                   wsCalls, searchTimeout, searchTimerCount, searchTimers,
                   lastKeystroke, lookupCount>>
    /\ UNCHANGED searchFrame

\* a click on a row of the open dropdown: selectExistingTask
UserClicksRow ==
  /\ modal = "open"
  /\ mode = "comment"
  /\ dropdownOpen
  /\ \E t \in taskDropdown : selectedExistingTask' = t
  /\ dropdownOpen' = FALSE
  /\ UNCHANGED <<mode, preferences, storedPrefs, workspaceSel, cleared,
                 projects, tags, selectedProject, selectedTags, customFields,
                 customFieldValues, taskDropdown, projectEnabled, tagsEnabled,
                 searchEnabled, status, now, wsCalls, searchTimeout,
                 searchTimerCount, searchTimers, lastKeystroke, searchCalls,
                 lookupCount>>
  /\ UNCHANGED searchFrame

\* a composer whose lists of workspace W1 are loaded
SearchInit ==
  /\ modal = "open"
  /\ pc = "idle"
  /\ mode \in {"create", "comment"}
  /\ taskName = <<"x">>
  /\ cleared = None
  /\ workspaces = WorkspaceIds
  /\ workspaceSel = "W1"
  /\ wsCall = NoCall
  /\ projects = ListsOf("W1").projects
  /\ tags = ListsOf("W1").tags
  /\ selectedProject \in {None, "P1"}
  /\ preferences = [defaultWorkspace |-> None, lastWorkspaceId |-> "W1",
                    defaultProject |-> None, lastProjectId |-> selectedProject,
                    autoClose |-> FALSE]
  /\ storedPrefs = preferences
  /\ selectedTags = {}
  /\ selectedExistingTask = None
  /\ customFields = {}
  /\ customFieldValues = {}
  /\ taskDropdown = {}
  /\ projectEnabled = TRUE
  /\ tagsEnabled = TRUE
  /\ searchEnabled = TRUE
  /\ createEnabled = TRUE
  /\ status = "none"
  /\ sub = NoSub
  /\ trace = <<>>
  /\ closeTimer = FALSE
  /\ removeTimers = 0
  /\ NoteIdle
  /\ InjectorIdle
  /\ GatewayIdle
  /\ PageIdle
  /\ NotifierIdle
  /\ ExtractorIdle

SearchSpec ==
  SearchInit /\ [][\/ UserTypesQuery
                   \/ SearchTimerFires
                   \/ SearchAnswered
                   \/ UserClicksRow
                   \/ SwitchModeClick
                   \/ SelectWorkspace
                   \/ ListsArrive
                   \/ PageTickPasses]_vars


\* C21: at most one search timer is pending, it is the one the last input
\* event set and it is due SearchDelay after that event; a SEARCH_TASKS
\* message is sent only by that timer, SearchDelay after the last input
\* event, with the trimmed query of that event of at least two characters
\* and with the workspace that is selected when the message is sent.
C21_SearchDebounce ==
  /\ [](/\ Cardinality(searchTimers) <= 1
        /\ \A t \in searchTimers :
             /\ t.id = searchTimeout
             /\ t.due = lastKeystroke + SearchDelay)
  /\ [][lookupCount' # lookupCount =>
          \E t \in searchTimers \ searchTimers' :
            /\ now = lastKeystroke + SearchDelay
            /\ Len(t.query) >= 2
            /\ t.query[1] # " " /\ t.query[Len(t.query)] # " "
            /\ Truthy(workspaceSel)
            /\ lookupCount' = lookupCount + 1
            /\ searchCalls' = searchCalls \cup
                 {[id |-> lookupCount', workspaceId |-> workspaceSel,
                   query |-> t.query]}]_vars

\* a second input event within the delay replaced the first timer and one
\* lookup was sent, for a workspace other than the one selected when the
\* user typed
C21_Witness ==
  /\ searchTimerCount = 2
  /\ lastKeystroke \in {PageTick, 2 * PageTick}
  /\ now = lastKeystroke + SearchDelay
  /\ lookupCount = 1
  /\ searchCalls = {[id |-> 1, workspaceId |-> "W2", query |-> <<"a", "b">>]}

\* C27: a selected existing task belongs to the selected workspace.
C27_Original ==
  Truthy(selectedExistingTask) =>
    /\ Truthy(workspaceSel)
    /\ selectedExistingTask \in ListsOf(workspaceSel).tasks


\* C25: once no workspace response is outstanding and none has failed,
\* the project and tag lists and the selected project are those of the
\* selected workspace.
C25_Original ==
  wsCalls = {} /\ Truthy(workspaceSel) /\ status # "error" =>
    /\ projects = ListsOf(workspaceSel).projects
    /\ tags = ListsOf(workspaceSel).tags
    /\ Truthy(selectedProject) => selectedProject \in projects


(***************************************************************************)
(* ReselectSpec: the submission with a user who keeps using the task       *)
(* picker of the comment mode while addCommentToTask is parked at an       *)
(* await: only the submit button is disabled, the rows of the dropdown     *)
(* and the clear button of the preview stay live.                          *)
(***************************************************************************)
\* a click on a row (selectExistingTask) or on the clear button
UserReselectsInFlight ==
  /\ modal = "open"
  /\ pc # "idle"
  /\ mode = "comment"
  /\ \E t \in (taskDropdown \cup {None}) \ {selectedExistingTask} :
       selectedExistingTask' = t
  /\ UNCHANGED <<modal, pc, mode, taskName, preferences, storedPrefs,
                 workspaces, workspaceSel, wsCall, cleared, projects, tags,
                 selectedProject, selectedTags, customFields,
                 customFieldValues, taskDropdown, projectEnabled, tagsEnabled,
                 searchEnabled, createEnabled, status, sub, trace, closeTimer,
                 removeTimers>>
  /\ UNCHANGED <<noteVars, injectorVars, gatewayVars, extractorVars,
                 notifierVars, pageVars>>

ReselectSpec == SubmitInit /\ [][\/ Submit
                                 \/ CallAnswered
                                 \/ EmlDownloaded
                                 \/ EmlUploaded
                                 \/ AttachmentDownloaded
                                 \/ AttachmentUploaded
                                 \/ LabelDone
                                 \/ AutoCloseFire
                                 \/ UserTypeTaskName
                                 \/ UserSwitchMode
                                 \/ UserClose
                                 \/ RemoveOverlay
                                 \/ UserReselectsInFlight]_vars

\* C26: every upload and the success notification of a comment submission
\* name the task its ADD_COMMENT was sent for.
C26_Original ==
  Len(trace) > 0 /\ trace[1].type = "ADD_COMMENT" =>
    \A i \in 1..Len(trace) :
      trace[i].type \in {"UPLOAD_ATTACHMENT_BASE64", "SHOW_NOTIFICATION"} =>
        trace[i].id = trace[1].id


(***************************************************************************)
(* MessageSpec: the three attachment scans of EmailExtractor on one open   *)
(* message.  thread.containers lists, in document order, the attachment    *)
(* elements of the message: a card (.aZo, .aQH) or an inline attachment    *)
(* (.aQw), with the text of its name element ("" when it has none) and     *)
(* the href of its download link.                                          *)
(***************************************************************************)
\* emailData.attachments = getAttachments()
GetAttachments ==
  LET \* the forEach over '.aZo, .aQH' (59-90): every card is pushed
      RECURSIVE Cards(_, _)
      Cards(atts, cs) ==
        IF cs = <<>> THEN atts
        ELSE LET c == Head(cs)
                 name == IF c.name = "" THEN "attachment" ELSE c.name
             IN  Cards(IF c.kind = "card"
                         THEN Append(atts, [name |-> name, url |-> c.url])
                         ELSE atts,
                       Tail(cs))
      \* the forEach over '.aQw' (93-108): a named element whose name is
      \* not in the list yet is pushed
      RECURSIVE Inline(_, _)
      Inline(atts, cs) ==
        IF cs = <<>> THEN atts
        ELSE LET c == Head(cs)
             IN  Inline(IF /\ c.kind = "inline"
                           /\ c.name # ""
                           /\ ~\E k \in 1..Len(atts) : atts[k].name = c.name
                          THEN Append(atts, [name |-> c.name, url |-> c.url])
                          ELSE atts,
                        Tail(cs))
  IN
  /\ ~scanned
  /\ attachments' = Inline(Cards(<<>>, thread.containers), thread.containers)
  /\ scanned' = TRUE
  /\ UNCHANGED <<thread, threadAttachments>>
  /\ UNCHANGED <<composerVars, noteVars, injectorVars, gatewayVars,
                 notifierVars, pageVars>>

\* emailData.attachments = getAttachmentsFromMessage(container)
GetAttachmentsFromMessage ==
  LET \* the forEach over '.aZo, .aQH, .aQw' (288-318)
      RECURSIVE Scan(_, _)
      Scan(atts, cs) ==
        IF cs = <<>> THEN atts
        ELSE LET c == Head(cs)
                 name == IF c.name = "" THEN "attachment" ELSE c.name
             IN  Scan(IF \E k \in 1..Len(atts) : atts[k].name = name
                        THEN atts
                        ELSE Append(atts, [name |-> name, url |-> c.url]),
                      Tail(cs))
  IN
  /\ ~scanned
  /\ attachments' = Scan(<<>>, thread.containers)
  /\ scanned' = TRUE
  /\ UNCHANGED <<thread, threadAttachments>>
  /\ UNCHANGED <<composerVars, noteVars, injectorVars, gatewayVars,
                 notifierVars, pageVars>>

\* a message with up to MaxContainers attachment elements
MessageInit ==
  /\ thread \in
       [containers :
          UNION {[1..k -> [kind : {"card", "inline"}, message : {1},
                           name : {"", "a.pdf", "b.png"},
                           url : AttachmentUrls]] : k \in 0..MaxContainers},
        rows : {<<>>},
        senders : {[k \in 1..MaxThreadMessages |-> <<"a">>]}]
  /\ threadAttachments = <<>>
  /\ scanned = FALSE
  /\ attachments = <<>>
  /\ ComposerIdle
  /\ NoteIdle
  /\ InjectorIdle
  /\ GatewayIdle
  /\ PageIdle
  /\ NotifierIdle

MessageSpec ==
  MessageInit /\ [][\/ GetAttachments
                    \/ GetAttachmentsFromMessage
                    \/ GetAllThreadAttachments]_vars

\* C24: no list of attachments the extractor returns for one message holds
\* two entries with the same name.
C24_Original ==
  /\ \A i, j \in 1..Len(attachments) :
       attachments[i].name = attachments[j].name => i = j
  /\ \A m \in 1..Len(threadAttachments) :
       \A i, j \in 1..Len(threadAttachments[m].attachments) :
         threadAttachments[m].attachments[i].name =
           threadAttachments[m].attachments[j].name => i = j


(***************************************************************************)
(* QuiescenceSpec: the injector with its observer on an event loop that    *)
(* lets time pass and runs the callback of a timer that is due.  The host  *)
(* takes injected triggers out of the document, at most MaxTimers times,   *)
(* and is never obliged to; its other changes only re-arm the timer and    *)
(* are left to ObserverSpec.                                               *)
(***************************************************************************)
QuiescenceSpec ==
  /\ ObserverInit
  /\ [][\/ InitInjector
        \/ DebounceFires
        \/ Tick
        \/ HostRemovesTrigger]_vars
  /\ WF_vars(DebounceFires)
  /\ WF_vars(Tick)

\* C30: the cap on the passes is never reached; from some point on no
\* debounce timer is pending, no pass runs and the triggers of the
\* document do not change.
C30_Quiescence ==
  /\ [](passes < MaxLoopPasses)
  /\ <>[](pendingTimers = {})
  /\ <>[][/\ passes' = passes
          /\ toolbarButtons' = toolbarButtons
          /\ miniButtons' = miniButtons]_vars

\* after MaxTimers notifications, that of an insertion of the injector
\* among them, and the passes they caused the loop has come to rest
C30_Witness ==
  /\ observing
  /\ timerCount = MaxTimers
  /\ passes >= 3
  /\ pendingTimers = {}
  /\ \E n \in Nodes : toolbarButtons[n] + miniButtons[n] > 0

=============================================================================
